---- MODULE Spec2Model ----
(***************************************************************************)
(* Verification model of the vocal-web agents (interpreter, navigator      *)
(* plan builders, orchestrator pipeline, API-key authentication).          *)
(*                                                                         *)
(* Text is modelled as a sequence of lower-case word tokens.  Python's     *)
(* substring test `kw in text` becomes "some token equals kw" (or, for a   *)
(* two-word keyword, two adjacent tokens); the vocabularies below hold no  *)
(* token that contains another keyword as a proper substring, no URL and   *)
(* no dotted domain name.  Confidences and scores are scaled by 100.       *)
(***************************************************************************)
EXTENDS Integers, Sequences, FiniteSets, Bags, TLC

VARIABLES
    msg,            \* interpreter: the TranscriptMessage being handled
    is_configured,  \* interpreter: asi_client.is_configured
    result,         \* interpreter: value returned (or exception raised)
    llm_calls,      \* interpreter: number of LLM requests issued
    llm_reply       \* interpreter: what the LLM request came back as

interpVars == <<msg, is_configured, result, llm_calls, llm_reply>>

VARIABLES
    _pipeline_sessions, \* orchestrator: trace id -> session
    inbox,              \* bag of messages sent to an agent and not yet handled
    now,                \* time.time(), in seconds
    uuids,              \* number of trace ids drawn from make_uuid
    outbox,             \* log of the results sent back to requesters
    accepted,           \* history: number of PipelineRequests accepted so far
    recorded,           \* history: trace id -> sender and snapshot last requested
    raised              \* history: number of handler runs ended by an exception

orchVars == <<_pipeline_sessions, inbox, now, uuids, outbox, accepted,
              recorded, raised>>

----------------------------------------------------------------------------
(* Generic helpers *)

EmptyDict == <<>>

Has(d, k) == k \in DOMAIN d

Put(d, k, v) == (k :> v) @@ d

PutIf(c, d, k, v) == IF c THEN Put(d, k, v) ELSE d

Min(S) == CHOOSE x \in S : \A y \in S : x <= y

HasWord(t, w) == \E i \in 1..Len(t) : t[i] = w

HasAny(t, ws) == \E i \in 1..Len(t) : t[i] \in ws

HasPair(t, a, b) == \E i \in 1..(Len(t) - 1) : t[i] = a /\ t[i + 1] = b

Rest(t, i) == SubSeq(t, i + 1, Len(t))

----------------------------------------------------------------------------
(* utils_dates.normalize_date: dateutil's fuzzy parse finds a date in a    *)
(* phrase iff the phrase holds a date word; the ISO date is represented    *)
(* by that word.  "" stands for None.                                      *)

DateWords == {"friday"}

normalize_date(text) ==
    IF HasAny(text, DateWords)
    THEN text[Min({i \in 1..Len(text) : text[i] \in DateWords})]
    ELSE ""

(* utils_urls.map_site_to_url; "" stands for None. *)
map_site_to_url(site) ==
    CASE site = "youtube" -> "https://www.youtube.com"
      [] site = "skyscanner" -> "https://www.skyscanner.net"
      [] site = "www.skyscanner.net" -> "https://www.skyscanner.net"
      [] site = "kayak" -> "https://www.kayak.com"
      [] site = "expedia" -> "https://www.expedia.com"
      [] site = "google" -> "https://www.google.com"
      [] site = "amazon" -> "https://www.amazon.com"
      [] OTHER -> ""

----------------------------------------------------------------------------
(* utils_entities.extract_entities_from_transcript *)

known_sites == <<"youtube", "dailymotion", "vimeo", "netflix", "primevideo",
                 "hulu", "disneyplus", "twitch", "skyscanner", "kayak",
                 "expedia", "google", "nytimes", "guardian",
                 "washingtonpost", "amazon">>

ordinals == << <<"first", 1>>, <<"1st", 1>>, <<"second", 2>>, <<"2nd", 2>>,
               <<"third", 3>>, <<"3rd", 3>>, <<"fourth", 4>>, <<"4th", 4>>,
               <<"fifth", 5>>, <<"5th", 5>>, <<"sixth", 6>>, <<"6th", 6>>,
               <<"seventh", 7>>, <<"7th", 7>>, <<"eighth", 8>>, <<"8th", 8>>,
               <<"ninth", 9>>, <<"9th", 9>>, <<"tenth", 10>>, <<"10th", 10>>,
               <<"last", -1>>, <<"latest", 1>> >>

\* position of the first "from" that is followed, after at least one word,
\* by a "to" that itself has a word after it; 0 when there is none
RouteFrom(t) ==
    LET ok == {i \in 1..Len(t) : /\ t[i] = "from"
                                 /\ \E j \in (i + 2)..(Len(t) - 1) : t[j] = "to"}
    IN IF ok = {} THEN 0 ELSE Min(ok)

RouteTo(t) ==
    LET i == RouteFrom(t)
    IN Min({j \in (i + 2)..(Len(t) - 1) : t[j] = "to"})

\* first index of word w that has at least one word after it; 0 if none
FirstFollowed(t, ws) ==
    LET ok == {i \in 1..(Len(t) - 1) : t[i] \in ws}
    IN IF ok = {} THEN 0 ELSE Min(ok)

\* end of group 2 of route_match: lazy up to the first " on" after one word
RouteEnd(t, j) ==
    LET ons == {k \in (j + 2)..Len(t) : t[k] = "on"}
    IN IF ons = {} THEN Len(t) ELSE Min(ons) - 1

\* where the search-query verb ends (0 when no verb is followed by text)
QueryStart(t) ==
    LET one == {i \in 1..(Len(t) - 1) : t[i] \in {"find", "play", "watch"}}
        two == {i \in 1..(Len(t) - 2) :
                   \/ (t[i] = "search" /\ t[i + 1] = "for")
                   \/ (t[i] = "look" /\ t[i + 1] \in {"up", "for"})}
        all == one \cup two
    IN IF all = {} THEN 0
       ELSE LET i == Min(all) IN IF i \in two THEN i + 1 ELSE i

TrimSiteHint(q) ==
    IF Len(q) >= 2 /\ q[Len(q) - 1] \in {"on", "in"}
    THEN SubSeq(q, 1, Len(q) - 2)
    ELSE q

extract_entities_from_transcript(t) ==
    LET e1 == PutIf(HasAny(t, {"latest", "newest", "recent"}),
                    EmptyDict, "latest", TRUE)
        e2 == IF HasPair(t, "scroll", "down")
              THEN Put(e1, "scroll_direction", "down")
              ELSE PutIf(HasPair(t, "scroll", "up"), e1, "scroll_direction", "up")
        sites == {n \in 1..Len(known_sites) : HasWord(t, known_sites[n])}
        e3 == PutIf(sites # {}, e2, "site", known_sites[Min(sites)])
        ords == {n \in 1..Len(ordinals) : HasWord(t, ordinals[n][1])}
        e4 == PutIf(ords # {}, e3, "position", ordinals[Min(ords)][2])
        rf == RouteFrom(t)
        rt == RouteTo(t)
        start == IF rf = 0 THEN "" ELSE normalize_date(SubSeq(t, rf + 1, rt - 1))
        end == IF rf = 0 THEN "" ELSE normalize_date(Rest(t, rt))
        e5 == PutIf(start # "", e4, "date_start", start)
        e6 == PutIf(end # "", e5, "date_end", end)
        on == FirstFollowed(t, {"on"})
        date == IF on = 0 THEN "" ELSE normalize_date(Rest(t, on))
        e7 == PutIf(date # "", e6, "date", date)
        dep == {i \in 1..(Len(t) - 2) :
                   t[i] \in {"depart", "departing"} /\ t[i + 1] = "on"}
        depDate == IF dep = {} THEN "" ELSE normalize_date(Rest(t, Min(dep) + 1))
        e8 == PutIf(depDate # "", e7, "date_start", depDate)
        ret == {i \in 1..(Len(t) - 2) :
                   t[i] \in {"return", "returning"} /\ t[i + 1] = "on"}
        retDate == IF ret = {} THEN "" ELSE normalize_date(Rest(t, Min(ret) + 1))
        e9 == PutIf(retDate # "", e8, "date_end", retDate)
        to == FirstFollowed(t, {"to"})
        from == FirstFollowed(t, {"from"})
        e10 == IF rf # 0
               THEN Put(Put(e9, "origin", SubSeq(t, rf + 1, rt - 1)),
                        "destination", SubSeq(t, rt + 1, RouteEnd(t, rt)))
               ELSE PutIf(from # 0,
                          PutIf(to # 0, e9, "destination", Rest(t, to)),
                          "origin", Rest(t, from))
        qs == QueryStart(t)
    IN PutIf(qs # 0, e10, "query", TrimSiteHint(Rest(t, qs)))

----------------------------------------------------------------------------
(* Values returned by build_action_plan_from_transcript.  `value` is a     *)
(* word sequence (<<>> for None), `target` a string ("" for None),         *)
(* `trace_id` "" for None.                                                  *)

ActionPlan(trace, action, target, value, entities, confidence, followup) ==
    [kind |-> "ActionPlan", trace_id |-> trace, action |-> action,
     target |-> target, value |-> value, entities |-> entities,
     entities_none |-> FALSE, confidence |-> confidence,
     required_followup |-> followup, options |-> <<>>, reason |-> ""]

ClarificationRequest(trace, options, reason) ==
    [kind |-> "ClarificationRequest", trace_id |-> trace, action |-> "",
     target |-> "", value |-> <<>>, entities |-> EmptyDict,
     entities_none |-> FALSE, confidence |-> 0,
     required_followup |-> <<>>, options |-> options, reason |-> reason]

\* an exception propagating out of the function (pydantic ValidationError)
Raised ==
    [kind |-> "raise", trace_id |-> "", action |-> "",
     target |-> "", value |-> <<>>, entities |-> EmptyDict,
     entities_none |-> FALSE, confidence |-> 0,
     required_followup |-> <<>>, options |-> <<>>, reason |-> ""]

GetStr(d, k) == IF Has(d, k) THEN d[k] ELSE ""

GetSeq(d, k) == IF Has(d, k) THEN d[k] ELSE <<>>

----------------------------------------------------------------------------
(* interpreter_agent.build_action_plan_from_transcript, local heuristics   *)

\* metadata.host_words: the words occurring in page_host or page_url
flight_site_context(m) ==
    \E hint \in {"skyscanner", "kayak", "expedia"} :
        hint \in m.metadata.host_words

transcript_for_processing(m) ==
    m.transcript \o m.metadata.clarification_response

\* number of leading words removed by the first re.sub of infer_query_text
LeadVerbLen(t) ==
    LET p == IF Len(t) >= 1 /\ t[1] = "please" THEN 1 ELSE 0
        two == /\ Len(t) >= p + 3
               /\ \/ (t[p + 1] = "show" /\ t[p + 2] = "me")
                  \/ (t[p + 1] = "search" /\ t[p + 2] = "for")
                  \/ (t[p + 1] = "look" /\ t[p + 2] \in {"up", "for"})
        one == /\ Len(t) >= p + 2
               /\ t[p + 1] \in {"open", "show", "play", "watch", "find", "search"}
    IN IF two THEN p + 2 ELSE IF one THEN p + 1 ELSE 0

infer_query_text(m, entities) ==
    IF GetSeq(entities, "query") # <<>>
    THEN entities["query"]
    ELSE SelectSeq(Rest(m.transcript, LeadVerbLen(m.transcript)),
                   LAMBDA w : w \notin {"latest", "newest", "recent"})

video_intent(t) ==
    HasAny(t, {"video", "videos", "watch", "play", "music",
               "song", "clip", "trailer", "episode"})

flight_intent(m) ==
    \/ HasAny(transcript_for_processing(m), {"flight", "flights", "airfare"})
    \/ HasPair(transcript_for_processing(m), "plane", "ticket")
    \/ flight_site_context(m)

search_signal(t) ==
    \/ HasAny(t, {"search", "find", "watch", "play"})
    \/ HasPair(t, "look", "up") \/ HasPair(t, "look", "for")
    \/ HasPair(t, "show", "me")

\* the guarded writes of interpreter_agent.py:101-144: the key is written only
\* when the guard holds and the dict does not hold the key yet
PutDefault(c, d, k, v) == IF c /\ ~Has(d, k) THEN Put(d, k, v) ELSE d

\* a default site together with its home page
PutSite(c, d, site) ==
    IF c /\ ~Has(d, "site")
    THEN Put(Put(d, "site", site), "url", map_site_to_url(site))
    ELSE d

PutQuery(m, t, d) ==
    LET query_text == IF \/ video_intent(t) \/ search_signal(t)
                         \/ GetSeq(d, "query") # <<>>
                      THEN infer_query_text(m, d) ELSE <<>>
    IN PutIf(query_text # <<>>, d, "query", query_text)

\* the entities dict as it stands when the classifiers run (interpreter_agent.py:99-144)
HeuristicEntities(m) ==
    LET t == transcript_for_processing(m)
        page_url == m.metadata.page_url
        page_host == m.metadata.page_host
        fsc == flight_site_context(m)
        e0 == extract_entities_from_transcript(t)
        e1 == PutDefault(page_url # "" /\ fsc, e0, "url", page_url)
        e2 == PutDefault(fsc /\ page_host # "", e1, "site", page_host)
        e3 == PutQuery(m, t, e2)
        e4 == PutSite(video_intent(t), e3, "youtube")
    IN PutSite(flight_intent(m), e4, "skyscanner")

\* the classifier cascade over the transcript t and the entities dict
Classify(m, t, entities) ==
    LET has_route == Has(entities, "origin") /\ Has(entities, "destination")
        has_destination_only == Has(entities, "destination")
        has_date == \E k \in {"date", "date_start", "date_end"} : Has(entities, k)
        hotel_intent == HasAny(t, {"hotel", "hotels", "stay", "booking", "bookings.com"})
        missing == (IF Has(entities, "origin") THEN <<>> ELSE <<"origin city">>)
                   \o (IF Has(entities, "destination") THEN <<>>
                       ELSE <<"destination city">>)
        followups == IF has_date THEN <<>> ELSE <<"date">>
        search_value == IF GetSeq(entities, "query") # <<>>
                        THEN entities["query"] ELSE m.transcript
        url_value == IF Has(entities, "url") THEN <<entities["url"]>> ELSE <<>>
        tid == m.trace_id
    IN
    IF HasWord(t, "scroll")
    THEN ActionPlan(tid, "scroll", "page",
                    <<IF Has(entities, "scroll_direction")
                      THEN entities["scroll_direction"] ELSE "down">>,
                    entities, 70, <<>>)
    ELSE IF (HasWord(t, "click") \/ HasWord(t, "open")) /\ Has(entities, "position")
    THEN ActionPlan(tid, "click_result", "item", <<ToString(entities["position"])>>,
                    entities, 75, <<>>)
    ELSE IF flight_intent(m)
    THEN IF missing # <<>>
         THEN ClarificationRequest(tid, missing, "missing_entities")
         ELSE ActionPlan(tid, "search_flights", "flight_search_form", <<>>,
                         entities, IF has_route THEN 85 ELSE 75, followups)
    ELSE IF hotel_intent /\ has_destination_only
    THEN ActionPlan(tid, "search_hotels", "hotel_search_form", <<>>,
                    entities, IF has_date THEN 78 ELSE 68, <<>>)
    ELSE IF has_destination_only /\ has_date
    THEN ActionPlan(tid, "search_hotels", "travel_search_form", <<>>,
                    entities, 70, <<>>)
    ELSE IF search_signal(t) \/ GetSeq(entities, "query") # <<>> \/ video_intent(t)
    THEN IF search_value = <<>>
         THEN ClarificationRequest(tid, <<"What should I search for?">>,
                                   "missing_query")
         ELSE ActionPlan(tid, "search_content",
                         IF Has(entities, "site") THEN entities["site"]
                         ELSE IF video_intent(t) THEN "youtube" ELSE "page",
                         search_value, entities,
                         IF Has(entities, "site") THEN 80 ELSE 65, <<>>)
    ELSE IF /\ (HasWord(t, "open") \/ HasPair(t, "go", "to") \/ HasWord(t, "navigate"))
            /\ (Has(entities, "site") \/ Has(entities, "url"))
    THEN ActionPlan(tid, "open_site", GetStr(entities, "site"), url_value,
                    entities, 80, <<>>)
    ELSE IF Has(entities, "site") \/ Has(entities, "url")
    THEN ActionPlan(tid, "open_site", GetStr(entities, "site"), url_value,
                    entities, 62, <<>>)
    ELSE ClarificationRequest(tid, <<"What should I do?">>, "ambiguous_intent")

\* the cascade without its last classifier, the bare site mention
Heuristics_WithoutSiteMention(m) ==
    LET plan == Classify(m, transcript_for_processing(m), HeuristicEntities(m))
    IN IF plan.action = "open_site" /\ plan.confidence = 62
       THEN ClarificationRequest(m.trace_id, <<"What should I do?">>,
                                 "ambiguous_intent")
       ELSE plan

\* mutation: the site mention is tried before the other classifiers
Heuristics_SiteMentionFirst(m) ==
    LET entities == HeuristicEntities(m)
    IN IF Has(entities, "site")
       THEN ActionPlan(m.trace_id, "open_site", entities["site"], <<>>,
                       entities, 62, <<>>)
       ELSE Classify(m, transcript_for_processing(m), entities)

Heuristics(m) == Classify(m, transcript_for_processing(m), HeuristicEntities(m))

----------------------------------------------------------------------------
(* llm_client.LLMClient: what one chat completion can come back as.        *)
(* A JSON object is a function from its keys to its values.                *)

NoneDict == [is_none |-> TRUE, dict |-> EmptyDict]

SomeDict(d) == [is_none |-> FALSE, dict |-> d]

\* _chat: None on a provider exception or a response without choices
_chat(reply) ==
    IF reply.chat = "content" THEN reply.content ELSE "none"

\* _extract_json: None when no {...} is found or json.loads fails
_extract_json(text, reply) ==
    IF text = "json" THEN SomeDict(reply.json) ELSE NoneDict

interpret_transcript(reply) ==
    LET text == _chat(reply)
    IN IF text \in {"none", "empty"} THEN NoneDict ELSE _extract_json(text, reply)

Truthy(remote) == ~remote.is_none /\ DOMAIN remote.dict # {}

\* pydantic: a required field that is absent raises ValidationError
Decodes(d, required) == required \subseteq DOMAIN d

GetDict(d, k) == IF Has(d, k) THEN d[k] ELSE EmptyDict

GetInt(d, k) == IF Has(d, k) THEN d[k] ELSE 0

\* the site's home page is filled in for a search_content plan
WithSiteUrl(d, merged) ==
    IF d["action"] = "search_content" /\ Has(merged, "site")
    THEN PutDefault(map_site_to_url(merged["site"]) # "", merged, "url",
                    map_site_to_url(merged["site"]))
    ELSE merged

PlanOf(d, merged) ==
    LET target == IF /\ d["action"] = "search_content"
                     /\ GetStr(d, "target") = ""
                     /\ Has(merged, "site")
                  THEN merged["site"] ELSE GetStr(d, "target")
    IN [ActionPlan(GetStr(d, "trace_id"), d["action"], target, GetSeq(d, "value"),
                   merged, GetInt(d, "confidence"), GetSeq(d, "required_followup"))
        EXCEPT !.entities_none = (DOMAIN merged = {})]

\* mutation: a locally extracted entity replaces the LLM's
LLMActionPlan_LocalWins(m, d) ==
    PlanOf(d, WithSiteUrl(d, extract_entities_from_transcript(m.transcript)
                             @@ GetDict(d, "entities")))

LLMActionPlan(m, d) ==
    PlanOf(d, WithSiteUrl(d, GetDict(d, "entities")
                             @@ extract_entities_from_transcript(m.transcript)))

\* the schema_version tag the interpreter acts on ("" when it falls through)
RemoteTag(configured, reply) ==
    LET remote == interpret_transcript(reply)
        version == GetStr(remote.dict, "schema_version")
    IN IF configured /\ Truthy(remote)
          /\ version \in {"clarification_v1", "actionplan_v1"}
       THEN version ELSE ""

(* interpreter_agent.build_action_plan_from_transcript *)
build_action_plan_from_transcript(m, configured, reply) ==
    LET d == interpret_transcript(reply).dict
    IN IF RemoteTag(configured, reply) = "clarification_v1"
       THEN IF Decodes(d, {"id", "question"})
            THEN ClarificationRequest(GetStr(d, "trace_id"), GetSeq(d, "options"),
                                      GetStr(d, "reason"))
            ELSE Raised
       ELSE IF RemoteTag(configured, reply) = "actionplan_v1"
       THEN IF Decodes(d, {"id", "action"})
            THEN LLMActionPlan(m, d)
            ELSE Raised
       ELSE Heuristics(m)

\* one LLM request is issued exactly when a provider is configured
LLMCallsOf(configured) == IF configured THEN 1 ELSE 0

----------------------------------------------------------------------------
(* Inputs of the interpreter *)

MaxPhrases == 3

Phrases == << <<"scroll", "down">>, <<"go", "back">>, <<"flight">>,
              <<"from", "paris">>, <<"to", "rome">>, <<"on", "friday">>,
              <<"find", "cats">>, <<"youtube">>, <<"click", "second">>,
              <<"hotel">> >>

RECURSIVE Flatten(_)
Flatten(ps) == IF ps = <<>> THEN <<>> ELSE Phrases[Head(ps)] \o Flatten(Tail(ps))

\* utterances: up to MaxPhrases distinct phrases in any order
Transcripts ==
    UNION { { Flatten(ps) : ps \in { f \in [1..n -> 1..Len(Phrases)] :
                                       \A i, j \in 1..n : i # j => f[i] # f[j] } }
            : n \in 0..MaxPhrases }

NoPage == [page_host |-> "", page_url |-> "", host_words |-> {},
           clarification_response |-> <<>>]

FlightPage == [page_host |-> "www.skyscanner.net",
               page_url |-> "https://www.skyscanner.net/transport/flights",
               host_words |-> {"www", "skyscanner", "net"},
               clarification_response |-> <<>>]

Answered == [NoPage EXCEPT !.clarification_response = <<"to", "rome">>]

Metadatas == {NoPage, FlightPage, Answered}

Content(kind) == [chat |-> "content", content |-> kind, json |-> EmptyDict]

Json(d) == [chat |-> "content", content |-> "json", json |-> d]

LLMReplies ==
    { [chat |-> "exception", content |-> "none", json |-> EmptyDict],
      [chat |-> "no_choices", content |-> "none", json |-> EmptyDict],
      Content("empty"), Content("prose"), Content("broken_json"),
      Json(EmptyDict),
      Json([id |-> "llm-1", action |-> "scroll"]),
      Json([schema_version |-> "actionplan_v9", id |-> "llm-1", action |-> "scroll"]),
      Json([schema_version |-> "actionplan_v1"]),
      Json([schema_version |-> "clarification_v1", id |-> "llm-1"]),
      Json([schema_version |-> "actionplan_v1", id |-> "llm-1", trace_id |-> "t1",
            action |-> "search_content", confidence |-> 90]),
      Json([schema_version |-> "actionplan_v1", id |-> "llm-1",
            action |-> "open_site", target |-> "google",
            entities |-> [site |-> "google"], confidence |-> 95]),
      Json([schema_version |-> "clarification_v1", id |-> "llm-1", trace_id |-> "t1",
            question |-> "Which one?", options |-> <<"first", "second">>,
            reason |-> "ambiguous_intent"]) }

\* plans whose entities meet the locally extracted ones: a site the
\* transcript may also name, with and without a url, and a site the table
\* does not know
AugmentedReplies ==
    { Json([schema_version |-> "actionplan_v1", id |-> "llm-1", trace_id |-> "t1",
            action |-> "search_content", entities |-> [site |-> "google"],
            confidence |-> 90]),
      Json([schema_version |-> "actionplan_v1", id |-> "llm-1", trace_id |-> "t1",
            action |-> "search_content",
            entities |-> [site |-> "google", url |-> "https://example.org",
                          query |-> <<"dogs">>],
            confidence |-> 90]),
      Json([schema_version |-> "actionplan_v1", id |-> "llm-1", trace_id |-> "t1",
            action |-> "search_content", entities |-> [site |-> "mystery"],
            confidence |-> 90]) }

\* the replies that differ in what the pipeline does with them: a provider
\* failure, an undecodable tagged object, a plan without and with a trace
\* id, a clarification
PipelineReplies ==
    { r \in LLMReplies :
        \/ r.chat = "exception"
        \/ /\ GetStr(r.json, "schema_version") \in {"actionplan_v1", "clarification_v1"}
           /\ (Has(r.json, "id") => Has(r.json, "action") \/ Has(r.json, "question")) }

NoReply == [chat |-> "not_called", content |-> "none", json |-> EmptyDict]

NoMsg == [transcript |-> <<>>, metadata |-> NoPage, trace_id |-> ""]

NoResult == [Raised EXCEPT !.kind = "none"]

InterpIdle ==
    /\ msg = NoMsg
    /\ is_configured = FALSE
    /\ result = NoResult
    /\ llm_calls = 0
    /\ llm_reply = NoReply

\* the request handed to the interpreter
InterpInputs ==
    /\ msg \in [transcript : Transcripts, metadata : Metadatas, trace_id : {"t1"}]
    /\ is_configured \in BOOLEAN
    /\ result = NoResult
    /\ llm_calls = 0
    /\ llm_reply = NoReply

----------------------------------------------------------------------------
(* orchestrator_agent: the pipeline over the agents' mailboxes.  Delivery  *)
(* between agents is modelled as asynchronous (a superset of the local     *)
(* Bureau, which runs each handler inside the sender's ctx.send).          *)

_SESSION_TTL_SECONDS == 600

MaxRequests == 2

MaxNow == 601

TickSteps == {600, 601}

TraceIds == {"t1"}

UuidPool == <<"u1", "u2", "u3", "u4">>

\* the requesters, each with the page snapshot and the utterance it submits
Requesters ==
    { [sender |-> "c1", ax_tree |-> "ax1", transcript |-> <<"scroll", "down">>],
      [sender |-> "c2", ax_tree |-> "ax2", transcript |-> <<"go", "back">>] }

\* utils_ids.make_uuid: an id no earlier call returned
make_uuid(n) == UuidPool[n + 1]

Message(type, dst, sender, trace, transcript, action, ax_tree) ==
    [type |-> type, dst |-> dst, sender |-> sender, trace_id |-> trace,
     transcript |-> transcript, action |-> action, ax_tree |-> ax_tree]

Send(box, m) == box (+) SetToBag({m})

Receive(box, m) == box (-) SetToBag({m})

Inbox(dst, type) == {m \in BagToSet(inbox) : m.dst = dst /\ m.type = type}

EmptySessions == [t \in {} |-> 0]

Remove(d, k) == [x \in DOMAIN d \ {k} |-> d[x]]

\* mutation: a session is dropped as soon as its age reaches the TTL
_prune_sessions_AtTTL(sessions, t) ==
    [k \in {x \in DOMAIN sessions :
               ~(t - sessions[x].created_at >= _SESSION_TTL_SECONDS)}
       |-> sessions[k]]

\* _prune_sessions: drop every session older than the TTL
_prune_sessions(sessions, t) ==
    [k \in {x \in DOMAIN sessions :
               ~(t - sessions[x].created_at > _SESSION_TTL_SECONDS)}
       |-> sessions[k]]

OrchIdle ==
    /\ _pipeline_sessions = EmptySessions
    /\ inbox = EmptyBag
    /\ now = 0
    /\ uuids = 0
    /\ outbox = <<>>
    /\ accepted = 0
    /\ recorded = EmptySessions
    /\ raised = 0

\* mutation: a session in flight is kept (setdefault) when its trace id is
\* requested again
handle_pipeline_request_KeepsFirst(sender, msg_trace, ax_tree, transcript) ==
    LET pruned == _prune_sessions(_pipeline_sessions, now)
        trace_id == IF msg_trace # "" THEN msg_trace ELSE make_uuid(uuids)
        serial == accepted + 1
    IN /\ accepted < MaxRequests
       /\ msg_trace = "" => uuids < Len(UuidPool)
       /\ uuids' = IF msg_trace # "" THEN uuids ELSE uuids + 1
       /\ _pipeline_sessions' =
             IF Has(pruned, trace_id) THEN pruned
             ELSE Put(pruned, trace_id, [sender |-> sender, ax_tree |-> ax_tree,
                                         created_at |-> now, serial |-> serial])
       /\ inbox' = Send(inbox, Message("TranscriptMessage", "interpreter",
                                       "orchestrator", trace_id, transcript, "", ""))
       /\ accepted' = serial
       /\ recorded' = Put(recorded, trace_id,
                          [sender |-> sender, ax_tree |-> ax_tree, serial |-> serial])
       /\ UNCHANGED <<now, outbox, raised>>

\* handle_pipeline_request; msg_trace = "" is an absent trace id
handle_pipeline_request(sender, msg_trace, ax_tree, transcript) ==
    LET pruned == _prune_sessions(_pipeline_sessions, now)
        trace_id == IF msg_trace # "" THEN msg_trace ELSE make_uuid(uuids)
        serial == accepted + 1
    IN /\ accepted < MaxRequests
       /\ msg_trace = "" => uuids < Len(UuidPool)
       /\ uuids' = IF msg_trace # "" THEN uuids ELSE uuids + 1
       /\ _pipeline_sessions' =
             Put(pruned, trace_id, [sender |-> sender, ax_tree |-> ax_tree,
                                    created_at |-> now, serial |-> serial])
       /\ inbox' = Send(inbox, Message("TranscriptMessage", "interpreter",
                                       "orchestrator", trace_id, transcript, "", ""))
       /\ accepted' = serial
       /\ recorded' = Put(recorded, trace_id,
                          [sender |-> sender, ax_tree |-> ax_tree, serial |-> serial])
       /\ UNCHANGED <<now, outbox, raised>>

\* mutation: a message is matched with whichever session comes first
SessionOf_AnySession(sessions, trace_id) ==
    sessions[CHOOSE k \in DOMAIN sessions : TRUE]

\* mutation: the terminal message reads the session and leaves it in place
PopSession_KeepsSession(sessions, trace_id) == sessions

\* _pipeline_sessions.get(trace_id): the session a message is matched with
SessionOf(sessions, trace_id) == sessions[trace_id]

\* mutation: the plan is forwarded whether or not a session is found
handle_action_plan_ForwardsUnknown(plan) ==
    LET pruned == _prune_sessions(_pipeline_sessions, now)
        trace_id == plan.trace_id
        ax_tree == IF Has(pruned, trace_id) THEN pruned[trace_id].ax_tree ELSE ""
    IN /\ _pipeline_sessions' = pruned
       /\ inbox' = Send(Receive(inbox, plan),
                        Message("AXNavigationRequest", "navigator", "orchestrator",
                                trace_id, <<>>, plan.action, ax_tree))
       /\ UNCHANGED <<now, uuids, outbox, accepted, recorded, raised>>

\* handle_action_plan
handle_action_plan(plan) ==
    LET pruned == _prune_sessions(_pipeline_sessions, now)
        trace_id == plan.trace_id
        found == Has(pruned, trace_id)
    IN /\ _pipeline_sessions' = pruned
       /\ inbox' = IF found
                   THEN Send(Receive(inbox, plan),
                             Message("AXNavigationRequest", "navigator",
                                     "orchestrator", trace_id, <<>>, plan.action,
                                     SessionOf(pruned, trace_id).ax_tree))
                   ELSE Receive(inbox, plan)
       /\ UNCHANGED <<now, uuids, outbox, accepted, recorded, raised>>

\* the session a terminal message finds, after pruning (pop(trace_id, None))
PopSession(sessions, trace_id) ==
    IF Has(sessions, trace_id) THEN Remove(sessions, trace_id) ELSE sessions

\* body shared by handle_execution_plan and handle_clarification
ReturnToRequester(m) ==
    LET pruned == _prune_sessions(_pipeline_sessions, now)
        trace_id == m.trace_id
        found == Has(pruned, trace_id)
    IN /\ _pipeline_sessions' = PopSession(pruned, trace_id)
       /\ inbox' = Receive(inbox, m)
       /\ outbox' = IF found
                    THEN Append(outbox, [to |-> SessionOf(pruned, trace_id).sender,
                                         trace_id |-> trace_id,
                                         serial |-> SessionOf(pruned, trace_id).serial])
                    ELSE outbox
       /\ UNCHANGED <<now, uuids, accepted, recorded, raised>>

handle_execution_plan(plan) == ReturnToRequester(plan)

handle_clarification(m) == ReturnToRequester(m)

\* interpreter_agent.handle_transcript: build the plan, send it to msg.sender
handle_transcript(m, reply) ==
    LET plan == build_action_plan_from_transcript(
                    [transcript |-> m.transcript, metadata |-> NoPage,
                     trace_id |-> m.trace_id], is_configured, reply)
    IN /\ inbox' = IF plan.kind = "raise"
                   THEN Receive(inbox, m)
                   ELSE Send(Receive(inbox, m),
                             Message(plan.kind, m.sender, "interpreter",
                                     plan.trace_id, <<>>, plan.action, ""))
       /\ raised' = IF plan.kind = "raise" THEN raised + 1 ELSE raised
       /\ UNCHANGED <<_pipeline_sessions, now, uuids, outbox, accepted,
                      recorded>>

\* navigator_agent.handle_ax_navigation: the result carries the request's
\* trace id and is an AXExecutionPlan or a ClarificationRequest
handle_ax_navigation(m, kind) ==
    /\ inbox' = Send(Receive(inbox, m),
                     Message(kind, m.sender, "navigator", m.trace_id, <<>>, "", ""))
    /\ UNCHANGED <<_pipeline_sessions, now, uuids, outbox, accepted,
                   recorded, raised>>

Tick(d) ==
    /\ now + d <= MaxNow
    /\ now' = now + d
    /\ UNCHANGED <<_pipeline_sessions, inbox, uuids, outbox, accepted,
                   recorded, raised>>

----------------------------------------------------------------------------
(* shared/auth.py and api_server.py: API-key verification with its per-IP  *)
(* failure limiter, and the HTTP routes that depend on it.  Times are in   *)
(* seconds.                                                                *)

VARIABLES
    FAILED_ATTEMPTS,    \* auth: ip -> times of the failures still counted
    BLOCKED_IPS,        \* auth: ip -> time at which the block expires
    wall_clock,         \* time.time()
    response,           \* the last request and the answer it got
    consecutive,        \* history: per ip, failures since the last success
    windowed            \* history: per ip, failures however interleaved

apiVars == <<FAILED_ATTEMPTS, BLOCKED_IPS, wall_clock, response,
             consecutive, windowed>>

FAILED_LIMIT == 10

FAILED_WINDOW_SECONDS == 60

BLOCK_DURATION_SECONDS == 300

MaxClock == 330

ClockSteps == {30, 300}

ClientIps == {"10.1.2.3", "127.0.0.1"}


\* auth_settings.expected_key, a key KEY_PATTERN accepts
expected_key == "valid-key-of-32-chars"

\* X-API-Key header values: absent (None), blank, too short for
\* KEY_PATTERN, well formed but wrong, the expected key, and the expected
\* key with surrounding whitespace
ApiKeyHeaders ==
    {"", " ", "short", "wrong-key-of-32-chars", expected_key,
     " valid-key-of-32-chars "}

\* the extension on the local host holds the configured key; the other
\* client sends whatever it likes
KeysOf(ip) ==
    IF ip = "127.0.0.1" THEN {expected_key} ELSE ApiKeyHeaders

\* (x_api_key or "").strip()
strip(x_api_key) ==
    CASE x_api_key = " " -> ""
      [] x_api_key = " valid-key-of-32-chars " -> expected_key
      [] OTHER -> x_api_key

KEY_PATTERN_fullmatch(provided) ==
    provided \in {"wrong-key-of-32-chars", expected_key}

compare_digest(provided, expected) == provided = expected

AuthState(failed, blocked) == [FAILED_ATTEMPTS |-> failed, BLOCKED_IPS |-> blocked]

\* while attempts and attempts[0] < window_start: attempts.popleft()
RECURSIVE PopExpired(_, _)
PopExpired(attempts, window_start) ==
    IF attempts # <<>> /\ Head(attempts) < window_start
    THEN PopExpired(Tail(attempts), window_start)
    ELSE attempts

_prune_attempts(failed, ip, t) ==
    IF ~Has(failed, ip) \/ failed[ip] = <<>>
    THEN failed
    ELSE LET attempts == PopExpired(failed[ip], t - FAILED_WINDOW_SECONDS)
         IN IF attempts = <<>> THEN Remove(failed, ip) ELSE Put(failed, ip, attempts)

\* a limiter that counts the failures and never blocks
_register_failure_NeverBlocks(auth, client_ip, t) ==
    LET ip == IF client_ip = "" THEN "unknown" ELSE client_ip
        pruned == _prune_attempts(auth.FAILED_ATTEMPTS, ip, t)
        attempts == Append(IF Has(pruned, ip) THEN pruned[ip] ELSE <<>>, t)
    IN AuthState(Put(pruned, ip, attempts), auth.BLOCKED_IPS)

_register_failure(auth, client_ip, t) ==
    LET ip == IF client_ip = "" THEN "unknown" ELSE client_ip
        pruned == _prune_attempts(auth.FAILED_ATTEMPTS, ip, t)
        attempts == Append(IF Has(pruned, ip) THEN pruned[ip] ELSE <<>>, t)
    IN IF Len(attempts) >= FAILED_LIMIT
       THEN AuthState(Remove(pruned, ip),
                      Put(auth.BLOCKED_IPS, ip, t + BLOCK_DURATION_SECONDS))
       ELSE AuthState(Put(pruned, ip, attempts), auth.BLOCKED_IPS)

\* a success that leaves the history as it is
_clear_failures_KeepsHistory(auth, ip) == auth

_clear_failures(auth, ip) ==
    AuthState(Remove(auth.FAILED_ATTEMPTS, ip), Remove(auth.BLOCKED_IPS, ip))

\* the answer, and BLOCKED_IPS after the expired entry has been popped
_is_blocked(blocked, client_ip, t) ==
    LET ip == IF client_ip = "" THEN "unknown" ELSE client_ip
    IN IF ~Has(blocked, ip) \/ blocked[ip] = 0
       THEN [blocked |-> FALSE, BLOCKED_IPS |-> blocked]
       ELSE IF blocked[ip] < t
            THEN [blocked |-> FALSE, BLOCKED_IPS |-> Remove(blocked, ip)]
            ELSE [blocked |-> TRUE, BLOCKED_IPS |-> blocked]

Rejected(auth) == [raised |-> TRUE, auth |-> auth]

Verified(auth) == [raised |-> FALSE, auth |-> auth]

\* a verification that accepts every well-formed key
verify_api_key_SkipsCompare(auth, client_ip, x_api_key, t) ==
    LET gate == _is_blocked(auth.BLOCKED_IPS, client_ip, t)
        open == AuthState(auth.FAILED_ATTEMPTS, gate.BLOCKED_IPS)
        provided == strip(x_api_key)
    IN IF gate.blocked THEN Rejected(open)
       ELSE IF provided = "" \/ ~KEY_PATTERN_fullmatch(provided)
            THEN Rejected(_register_failure(open, client_ip, t))
            ELSE Verified(_clear_failures(open, client_ip))

\* a verification that counts the requests of a blocked ip as failures
verify_api_key_CountsBlocked(auth, client_ip, x_api_key, t) ==
    LET gate == _is_blocked(auth.BLOCKED_IPS, client_ip, t)
        open == AuthState(auth.FAILED_ATTEMPTS, gate.BLOCKED_IPS)
        provided == strip(x_api_key)
    IN IF gate.blocked \/ provided = "" \/ ~KEY_PATTERN_fullmatch(provided)
          \/ ~compare_digest(provided, expected_key)
       THEN Rejected(_register_failure(open, client_ip, t))
       ELSE Verified(_clear_failures(open, client_ip))

\* raised: GENERIC_ERROR, the HTTPException with status 401
verify_api_key(auth, client_ip, x_api_key, t) ==
    LET gate == _is_blocked(auth.BLOCKED_IPS, client_ip, t)
        open == AuthState(auth.FAILED_ATTEMPTS, gate.BLOCKED_IPS)
        provided == strip(x_api_key)
    IN IF gate.blocked THEN Rejected(open)
       ELSE IF provided = "" THEN Rejected(_register_failure(open, client_ip, t))
       ELSE IF ~KEY_PATTERN_fullmatch(provided)
            THEN Rejected(_register_failure(open, client_ip, t))
       ELSE IF ~compare_digest(provided, expected_key)
            THEN Rejected(_register_failure(open, client_ip, t))
       ELSE Verified(_clear_failures(open, client_ip))

\* VCAA_ALLOWED_ORIGINS is not set
ALLOWED_ORIGINS == {}

Origins == {"", "chrome-extension://abcdef", "http://evil.example"}

is_origin_allowed(origin) ==
    \/ origin = ""
    \/ origin = "chrome-extension://abcdef"    \* startswith("chrome-extension://")
    \/ origin \in ALLOWED_ORIGINS

\* the routes and whether they are declared with Depends(verify_api_key)
Routes ==
    {"/health", "/api/stt/transcribe", "/api/interpreter/actionplan",
     "/api/navigator/executionplan", "/api/execution/result"}

DependsOnKey(route) == route # "/health"

\* request bodies, by what the handler makes of them
Payloads(route) ==
    CASE route = "/api/stt/transcribe" -> {"no_audio", "unreadable_audio", "audio"}
      [] route = "/api/interpreter/actionplan" -> {"heuristics", "llm_undecodable"}
      [] OTHER -> {"body"}

transcribe_audio(payload) ==
    CASE payload = "no_audio" -> 400           \* HTTPException(400)
      [] payload = "unreadable_audio" -> 500   \* TranscriptionError -> 500
      [] OTHER -> 200

\* an exception that leaves the handler is answered with 500
interpreter_endpoint(payload) ==
    LET body == [transcript |-> <<"scroll", "down">>, metadata |-> NoPage,
                 trace_id |-> "t1"]
        plan == IF payload = "llm_undecodable"
                THEN build_action_plan_from_transcript(
                         body, TRUE, Json([schema_version |-> "actionplan_v1"]))
                ELSE build_action_plan_from_transcript(body, FALSE, NoReply)
    IN IF plan.kind = "raise" THEN 500 ELSE 200

RunHandler(route, payload) ==
    CASE route = "/api/stt/transcribe" -> transcribe_audio(payload)
      [] route = "/api/interpreter/actionplan" -> interpreter_endpoint(payload)
      [] OTHER -> 200

NoResponse ==
    [route |-> "", ip |-> "", x_api_key |-> "", origin |-> "", payload |-> "",
     status |-> 0, handler_ran |-> FALSE]

Answer(route, ip, x_api_key, origin, payload, status, ran) ==
    [route |-> route, ip |-> ip, x_api_key |-> x_api_key, origin |-> origin,
     payload |-> payload, status |-> status, handler_ran |-> ran]

\* the limiter as a statement: once an unblocked ip has FAILED_LIMIT
\* failures inside the window it is blocked for BLOCK_DURATION_SECONDS;
\* reset says whether a success forgets the failures before it
NoFailures == [failures |-> <<>>, blocked_until |-> -1]

Limiter(g, ip, failed, t, reset) ==
    IF t <= g[ip].blocked_until THEN g
    ELSE IF failed
         THEN LET recent == SelectSeq(g[ip].failures,
                                      LAMBDA a : a >= t - FAILED_WINDOW_SECONDS)
              IN IF Len(recent) + 1 >= FAILED_LIMIT
                 THEN [g EXCEPT ![ip] = [failures |-> <<>>,
                                         blocked_until |-> t + BLOCK_DURATION_SECONDS]]
                 ELSE [g EXCEPT ![ip].failures = Append(recent, t)]
         ELSE IF reset THEN [g EXCEPT ![ip].failures = <<>>] ELSE g

Forget(g, t) ==
    [ip \in DOMAIN g |->
        [g[ip] EXCEPT !.failures =
            SelectSeq(@, LAMBDA a : a >= t - FAILED_WINDOW_SECONDS)]]

ApiIdle ==
    /\ FAILED_ATTEMPTS = EmptyDict
    /\ BLOCKED_IPS = EmptyDict
    /\ wall_clock = 0
    /\ response = NoResponse
    /\ consecutive = [ip \in ClientIps |-> NoFailures]
    /\ windowed = [ip \in ClientIps |-> NoFailures]

\* OriginValidatorMiddleware.dispatch, then the route's dependency, then
\* its handler
HttpRequest(route, ip, x_api_key, origin, payload) ==
    LET check == verify_api_key(AuthState(FAILED_ATTEMPTS, BLOCKED_IPS),
                                ip, x_api_key, wall_clock)
        failed == strip(x_api_key) # expected_key
    IN IF origin # "" /\ ~is_origin_allowed(origin)
       THEN /\ response' = Answer(route, ip, x_api_key, origin, payload, 403, FALSE)
            /\ UNCHANGED <<FAILED_ATTEMPTS, BLOCKED_IPS, consecutive, windowed>>
       ELSE IF ~DependsOnKey(route)
       THEN /\ response' = Answer(route, ip, x_api_key, origin, payload, 200, TRUE)
            /\ UNCHANGED <<FAILED_ATTEMPTS, BLOCKED_IPS, consecutive, windowed>>
       ELSE /\ FAILED_ATTEMPTS' = check.auth.FAILED_ATTEMPTS
            /\ BLOCKED_IPS' = check.auth.BLOCKED_IPS
            /\ consecutive' = Limiter(consecutive, ip, failed, wall_clock, TRUE)
            /\ windowed' = Limiter(windowed, ip, failed, wall_clock, FALSE)
            /\ response' =
                 IF check.raised
                 THEN Answer(route, ip, x_api_key, origin, payload, 401, FALSE)
                 ELSE Answer(route, ip, x_api_key, origin, payload,
                             RunHandler(route, payload), TRUE)

ClockAdvances(d) ==
    /\ wall_clock + d <= MaxClock
    /\ wall_clock' = wall_clock + d
    /\ response' = NoResponse
    /\ consecutive' = Forget(consecutive, wall_clock + d)
    /\ windowed' = Forget(windowed, wall_clock + d)
    /\ UNCHANGED <<FAILED_ATTEMPTS, BLOCKED_IPS>>

----------------------------------------------------------------------------
(* shared/utils_urls.rewrite_flight_dates_in_url and                       *)
(* shared/utils_dates.format_compact_date_for_url.  A URL is a sequence of *)
(* tokens: the scheme, "://", the host, then the path character by         *)
(* character, then "?" and the query, "#" and the fragment.  <<>> stands   *)
(* for None and for the empty string.                                      *)

VARIABLES
    rw_args,     \* the page URL and the ISO dates of the update
    rw_calls,    \* how many times the rewrite has been applied
    rw_once,     \* rewrite_flight_dates_in_url(page_url, out, back)
    rw_twice     \* the same call on rw_once

urlVars == <<rw_args, rw_calls, rw_once, rw_twice>>

Digits == <<"0", "1", "2", "3", "4", "5", "6", "7", "8", "9">>

IsDigit(c) == \E i \in 1..Len(Digits) : Digits[i] = c

\* f"{n:02d}"
TwoDigits(n) == <<Digits[(n \div 10) + 1], Digits[(n % 10) + 1]>>

NoDate == [year |-> 0, month |-> 0, day |-> 0]

\* format_compact_date_for_url: YYMMDD of a parsed ISO date, None otherwise
format_compact_date_for_url(date_iso) ==
    IF date_iso = NoDate THEN <<>>
    ELSE TwoDigits(date_iso.year % 100) \o TwoDigits(date_iso.month)
         \o TwoDigits(date_iso.day)

\* index of the first occurrence of token c in s, 0 when there is none
IndexOf(s, c) ==
    IF \E i \in 1..Len(s) : s[i] = c
    THEN CHOOSE i \in 1..Len(s) : s[i] = c /\ \A j \in 1..(i - 1) : s[j] # c
    ELSE 0

\* urllib.parse.urlsplit: scheme, "://" and host are the first three tokens
\* of an absolute URL; a text without them is all path
urlsplit(u) ==
    LET absolute == Len(u) >= 3 /\ u[2] = "://"
        rest == IF absolute THEN SubSeq(u, 4, Len(u)) ELSE u
        hash == IndexOf(rest, "#")
        head == IF hash = 0 THEN rest ELSE SubSeq(rest, 1, hash - 1)
        mark == IndexOf(head, "?")
    IN [scheme |-> IF absolute THEN u[1] ELSE "",
        netloc |-> IF absolute THEN u[3] ELSE "",
        path |-> IF mark = 0 THEN head ELSE SubSeq(head, 1, mark - 1),
        query |-> IF mark = 0 THEN <<>> ELSE SubSeq(head, mark + 1, Len(head)),
        fragment |-> IF hash = 0 THEN <<>> ELSE SubSeq(rest, hash + 1, Len(rest))]

\* urllib.parse.urlunsplit: an empty query or fragment is left out together
\* with its delimiter
urlunsplit(scheme, netloc, path, query, fragment) ==
    (IF scheme = "" THEN <<>> ELSE <<scheme, "://", netloc>>) \o path
      \o (IF query = <<>> THEN <<>> ELSE <<"?">> \o query)
      \o (IF fragment = <<>> THEN <<>> ELSE <<"#">> \o fragment)

\* str.split("/")
RECURSIVE split(_)
split(path) ==
    LET slash == IndexOf(path, "/")
    IN IF slash = 0 THEN <<path>>
       ELSE <<SubSeq(path, 1, slash - 1)>> \o split(SubSeq(path, slash + 1, Len(path)))

\* "/".join(parts)
RECURSIVE join(_)
join(parts) ==
    IF Len(parts) = 1 THEN parts[1]
    ELSE parts[1] \o <<"/">> \o join(Tail(parts))

\* re.fullmatch(r"\d{6}", part)
fullmatch_six_digits(part) ==
    Len(part) = 6 /\ \A i \in 1..6 : IsDigit(part[i])

\* [idx for idx, part in enumerate(parts) if re.fullmatch(...)], 1-based
date_indexes(parts) ==
    SelectSeq([i \in 1..Len(parts) |-> i],
              LAMBDA i : fullmatch_six_digits(parts[i]))

\* re.finditer(r"\d{6}", path): the starts of the non-overlapping runs of
\* six digits, scanning from position i
RECURSIVE finditer_six_digits(_, _)
finditer_six_digits(path, i) ==
    IF i + 5 > Len(path) THEN <<>>
    ELSE IF \A k \in i..(i + 5) : IsDigit(path[k])
         THEN <<i>> \o finditer_six_digits(path, i + 6)
         ELSE finditer_six_digits(path, i + 1)

\* the loop of lines 74-79: match k of `matches` is replaced in new_path,
\* whose positions have moved by `offset`
RECURSIVE ReplaceRuns(_, _, _, _, _)
ReplaceRuns(new_path, matches, replacements, k, offset) ==
    IF k > Len(matches) \/ k > Len(replacements) THEN new_path
    ELSE LET start == matches[k] + offset
             end == matches[k] + 5 + offset
         IN ReplaceRuns(SubSeq(new_path, 1, start - 1) \o replacements[k]
                            \o SubSeq(new_path, end + 1, Len(new_path)),
                        matches, replacements, k + 1,
                        offset + Len(replacements[k]) - 6)

\* list.insert(insert_at, value), insert_at counted from 1
Insert(parts, insert_at, value) ==
    SubSeq(parts, 1, insert_at - 1) \o <<value>>
      \o SubSeq(parts, insert_at, Len(parts))

\* mutation: without a return date the outbound date overwrites every
\* date segment
UpdatedParts_OverwritesEvery(parts, indexes, outbound, inbound) ==
    [i \in 1..Len(parts) |->
        IF \E k \in 1..Len(indexes) : indexes[k] = i
        THEN (IF inbound # <<>> /\ i # indexes[1] THEN inbound ELSE outbound)
        ELSE parts[i]]

\* lines 82-90: the date segments are overwritten, or the return date is
\* inserted after a lone date segment
UpdatedParts(parts, indexes, outbound, inbound) ==
    LET first == [parts EXCEPT ![indexes[1]] = outbound]
    IN IF Len(indexes) > 1 /\ inbound # <<>>
       THEN [first EXCEPT ![indexes[2]] = inbound]
       ELSE IF inbound # <<>> /\ Len(indexes) = 1
       THEN Insert(first, indexes[1] + 1, inbound)
       ELSE first

Rewritten(parsed, parts, outbound, inbound) ==
    IF date_indexes(parts) = <<>>
    THEN IF finditer_six_digits(parsed.path, 1) = <<>> THEN <<>>
         ELSE urlunsplit(parsed.scheme, parsed.netloc,
                         ReplaceRuns(parsed.path, finditer_six_digits(parsed.path, 1),
                                     IF inbound = <<>> THEN <<outbound>>
                                     ELSE <<outbound, inbound>>, 1, 0),
                         parsed.query, parsed.fragment)
    ELSE urlunsplit(parsed.scheme, parsed.netloc,
                    join(UpdatedParts(parts, date_indexes(parts), outbound, inbound)),
                    parsed.query, parsed.fragment)

rewrite_flight_dates_in_url(page_url, outbound, inbound) ==
    IF page_url = <<>> \/ outbound = <<>> THEN <<>>
    ELSE Rewritten(urlsplit(page_url), split(urlsplit(page_url).path),
                   outbound, inbound)

MaxSegments == 3

\* path segments: an airport code, two compact dates, a segment that only
\* embeds a date, and the empty segment of "//" or of a trailing "/"
Segments ==
    { <<"i", "s", "t">>,
      <<"2", "6", "0", "3", "0", "4">>,
      <<"2", "5", "0", "2", "0", "2">>,
      <<"d", "2", "5", "0", "3", "0", "3">>,
      <<>> }

\* "/" + segment for every segment
RECURSIVE PathOf(_)
PathOf(segments) ==
    IF segments = <<>> THEN <<>>
    ELSE <<"/">> \o Head(segments) \o PathOf(Tail(segments))

Paths == {PathOf(s) : s \in UNION {[1..n -> Segments] : n \in 0..MaxSegments}}

QueriesAndFragments ==
    { <<>>, <<"?">>, <<"?", "adults=1">>, <<"?", "adults=1", "#", "top">> }

PageUrls ==
    {<<>>} \cup {<<"https", "://", "www.skyscanner.net">> \o path \o tail :
                    path \in Paths, tail \in QueriesAndFragments}

OutboundDates == { [year |-> 2026, month |-> 3, day |-> 4],
                   [year |-> 2025, month |-> 12, day |-> 31] }

ReturnDates == { NoDate, [year |-> 2026, month |-> 3, day |-> 9] }

NoRewrite == [page_url |-> <<>>, outbound |-> NoDate, inbound |-> NoDate]

UrlIdle ==
    /\ rw_args = NoRewrite
    /\ rw_calls = 0
    /\ rw_once = <<>>
    /\ rw_twice = <<>>

UrlInputs ==
    /\ rw_args \in [page_url : PageUrls, outbound : OutboundDates,
                    inbound : ReturnDates]
    /\ rw_calls = 0
    /\ rw_once = <<>>
    /\ rw_twice = <<>>

\* utils_plans.py:552-572: the dates are compacted and the URL is rewritten
FirstRewrite ==
    /\ rw_calls = 0
    /\ rw_once' = rewrite_flight_dates_in_url(
                      rw_args.page_url,
                      format_compact_date_for_url(rw_args.outbound),
                      format_compact_date_for_url(rw_args.inbound))
    /\ rw_calls' = 1
    /\ UNCHANGED <<rw_args, rw_twice>>

\* the same update asked for again on the page the first one navigated to
SecondRewrite ==
    /\ rw_calls = 1
    /\ rw_once # <<>>
    /\ rw_twice' = rewrite_flight_dates_in_url(
                       rw_once,
                       format_compact_date_for_url(rw_args.outbound),
                       format_compact_date_for_url(rw_args.inbound))
    /\ rw_calls' = 2
    /\ UNCHANGED <<rw_args, rw_once>>

----------------------------------------------------------------------------
(* navigator: the DOM flight-search form filler (shared/utils_plans.py,    *)
(* utils_dom_selectors.py, utils_dom_scoring.py) and the accessibility-    *)
(* tree matcher (shared/ax_matcher.py, navigator_agent.py).  A text field  *)
(* is a sequence of lower-case words; scores are hundredths (DOM) and      *)
(* thousandths (accessibility tree).                                       *)

VARIABLES
    nav_request,    \* navigator: the request being planned
    nav_result      \* navigator: the plan or clarification returned

navVars == <<nav_request, nav_result>>

Max(S) == CHOOSE x \in S : \A y \in S : y <= x

\* kw in text, for a keyword of one or more words
Contains(text, kw) ==
    \E i \in 0..(Len(text) - Len(kw)) : \A j \in 1..Len(kw) : text[i + j] = kw[j]

keyword_score(text, keywords) ==
    LET matches == Cardinality({k \in 1..Len(keywords) : Contains(text, keywords[k])})
    IN IF text = <<>> \/ matches = 0 THEN 0 ELSE Min({100, matches * 50})

\* of the score fields only text and aria_label are filled in
score_dom_element(el, keywords) ==
    LET base == Max({keyword_score(el.text, keywords),
                     keyword_score(el.aria_label, keywords)})
    IN Min({100, base + el.score_hint})

combine_element_text(el) == el.text \o el.aria_label

NoElement ==
    [element_id |-> "", tag |-> "", role |-> "", type |-> "", text |-> <<>>,
     aria_label |-> <<>>, score_hint |-> 0, enabled |-> TRUE]

Picked(el, score) == [el |-> el, score |-> score]

find_tagged_element_by_keywords(elements, keywords, allowed_tags, exclude_ids) ==
    LET found == {i \in 1..Len(elements) :
                    /\ elements[i].element_id \notin exclude_ids
                    /\ (allowed_tags = {} \/ elements[i].tag \in allowed_tags)
                    /\ \E k \in 1..Len(keywords) :
                          Contains(combine_element_text(elements[i]), keywords[k])}
    IN IF keywords = <<>> \/ found = {} THEN NoElement ELSE elements[Min(found)]

\* the first element with the highest score above 0 among those let through
pick_best_element(elements, keywords, allowed_tags, allowed_roles, exclude_ids) ==
    LET tag_ok(el) == allowed_tags = {} \/ el.tag \in allowed_tags
        role_ok(el) == allowed_roles = {} \/ el.role \in allowed_roles
        passes(el) ==
            IF allowed_tags # {} /\ allowed_roles # {} THEN tag_ok(el) \/ role_ok(el)
            ELSE IF allowed_tags # {} THEN tag_ok(el)
            ELSE IF allowed_roles # {} THEN role_ok(el)
            ELSE TRUE
        eligible == {i \in 1..Len(elements) :
                       /\ elements[i].element_id \notin exclude_ids
                       /\ passes(elements[i])
                       /\ score_dom_element(elements[i], keywords) > 0}
        best_score == Max({score_dom_element(elements[i], keywords) : i \in eligible})
    IN IF eligible = {} THEN Picked(NoElement, 0)
       ELSE Picked(elements[Min({i \in eligible :
                        score_dom_element(elements[i], keywords) = best_score})],
                   best_score)

find_option_for_value(elements, value, exclude_ids) ==
    LET pick == pick_best_element(elements, <<value>>, {"div", "span", "li", "button"},
                                  {"option", "listitem", "menuitem"}, exclude_ids)
    IN IF value = <<>> THEN Picked(NoElement, 0)
       ELSE IF pick.el # NoElement /\ pick.el.type = "submit" THEN Picked(NoElement, 0)
       ELSE pick

\* keyword_groups of build_execution_plan_for_flight_search (the Turkish
\* keywords are written without their diacritics)
OriginKeywords ==
    << <<"origin">>, <<"from">>, <<"from", "city">>, <<"from", "where">>,
       <<"departure">>, <<"nereden">>, <<"kalkis">>, <<"gidis">> >>

DestinationKeywords ==
    << <<"destination">>, <<"to">>, <<"arrival">>, <<"to", "city">>,
       <<"nereye">>, <<"varis">>, <<"varis", "noktasi">>, <<"rota">> >>

SearchKeywords ==
    << <<"search">>, <<"find">>, <<"go">>, <<"ara">>, <<"bul">>, <<"devam">> >>

FieldTags == {"input", "textarea", "select"}

FieldRoles == {"combobox", "textbox"}

IdOf(el) == IF el = NoElement THEN {} ELSE {el.element_id}

ExecutionStep(step_id, action_type, el, confidence) ==
    [step_id |-> step_id, action_type |-> action_type,
     element_id |-> el.element_id, confidence |-> confidence]

NoNavResult == [kind |-> "none", steps |-> <<>>, options |-> <<>>, reason |-> ""]

ExecutionPlan(steps) == [NoNavResult EXCEPT !.kind = "ExecutionPlan", !.steps = steps]

NavClarification(options, reason) ==
    [NoNavResult EXCEPT !.kind = "ClarificationRequest", !.options = options,
                        !.reason = reason]

\* a step that acts on the page and not on an element (element_id=None)
ValueStep(step_id, action_type, value, confidence) ==
    [step_id |-> step_id, action_type |-> action_type, element_id |-> "",
     confidence |-> confidence, value |-> value]

\* names that hold a "." (utils_urls.py:49)
DottedNames == {"example.com", "www.skyscanner.net"}

\* map_site_to_url on a text of tokens; a URL of the table is one token
site_url(site) ==
    IF Len(site) = 1 /\ map_site_to_url(site[1]) # ""
    THEN <<map_site_to_url(site[1])>>
    ELSE IF Len(site) >= 2 /\ site[1] \in {"http", "https"} /\ site[2] = "://"
    THEN site
    ELSE IF \E i \in 1..Len(site) : site[i] \in DottedNames
    THEN <<"https", "://">> \o site
    ELSE <<>>

\* a or b, for texts
Or(a, b) == IF a # <<>> THEN a ELSE b

GetDate(d, k) == IF Has(d, k) THEN d[k] ELSE NoDate

build_execution_plan_for_navigation(action_plan) ==
    LET url == Or(GetSeq(action_plan.entities, "url"),
                  site_url(Or(action_plan.target, action_plan.value)))
    IN IF url = <<>> THEN NavClarification(<<>>, "missing_site")
       ELSE ExecutionPlan(<<ValueStep("s_navigate", "navigate", url, 90)>>)

build_execution_plan_for_history_back(action_plan) ==
    ExecutionPlan(<<ValueStep("s_history_back", "history_back", <<"back">>, 95)>>)

build_execution_plan_for_scroll(action_plan) ==
    ExecutionPlan(<<ValueStep("s_scroll", "scroll",
                              Or(GetSeq(action_plan.entities, "scroll_direction"),
                                 Or(action_plan.value, <<"down">>)),
                              70)>>)

\* re.search(r"/\d{6}/", url)
HasDateSegment(url) ==
    \E i \in 1..(Len(url) - 7) :
        /\ url[i] = "/"
        /\ \A j \in 1..6 : IsDigit(url[i + j])
        /\ url[i + 7] = "/"

\* mutation: the date is tested before the page URL
DateUpdatePlan_DateFirst(base_url, outbound_compact, updated_url) ==
    IF outbound_compact = <<>> THEN NavClarification(<<>>, "missing_date")
    ELSE IF base_url = <<>> THEN NavClarification(<<>>, "missing_page_url")
    ELSE IF updated_url = <<>> THEN NavClarification(<<>>, "missing_date_in_url")
    ELSE ExecutionPlan(<<ValueStep("s_update_flight_dates", "navigate",
                                   updated_url, 90)>>)

DateUpdatePlan(base_url, outbound_compact, updated_url) ==
    IF base_url = <<>> THEN NavClarification(<<>>, "missing_page_url")
    ELSE IF outbound_compact = <<>> THEN NavClarification(<<>>, "missing_date")
    ELSE IF updated_url = <<>> THEN NavClarification(<<>>, "missing_date_in_url")
    ELSE ExecutionPlan(<<ValueStep("s_update_flight_dates", "navigate",
                                   updated_url, 90)>>)

UpdateDatesAt(base_url, outbound_compact, return_compact) ==
    DateUpdatePlan(base_url, outbound_compact,
                   rewrite_flight_dates_in_url(base_url, outbound_compact,
                                               return_compact))

build_execution_plan_for_flight_date_update(action_plan, dom_map) ==
    UpdateDatesAt(
        Or(dom_map.page_url, Or(action_plan.value, GetSeq(action_plan.entities, "url"))),
        format_compact_date_for_url(
            IF GetDate(action_plan.entities, "date_start") # NoDate
            THEN GetDate(action_plan.entities, "date_start")
            ELSE GetDate(action_plan.entities, "date")),
        format_compact_date_for_url(GetDate(action_plan.entities, "date_end")))

build_execution_plan_for_flight_search(action_plan, dom_map) ==
    LET elements == dom_map.elements
        first_origin == pick_best_element(elements, OriginKeywords, FieldTags,
                                          FieldRoles, {})
        used_1 == IdOf(first_origin.el)
        first_dest == pick_best_element(elements, DestinationKeywords, FieldTags,
                                        FieldRoles, used_1)
        used_2 == used_1 \cup IdOf(first_dest.el)
        search == pick_best_element(elements, SearchKeywords, {"button", "a"},
                                    {"button"}, used_2)
        used_3 == used_2 \cup IdOf(search.el)
        \* the same element selected for origin and destination
        kept_dest ==
            IF /\ first_origin.el # NoElement /\ first_dest.el # NoElement
               /\ first_origin.el.element_id = first_dest.el.element_id
            THEN Picked(NoElement, 0) ELSE first_dest
        origin_fallback ==
            find_tagged_element_by_keywords(elements, OriginKeywords, FieldTags, {})
        origin ==
            IF (first_origin.el = NoElement \/ first_origin.score < 35)
               /\ origin_fallback # NoElement
            THEN Picked(origin_fallback, Max({first_origin.score, 60}))
            ELSE first_origin
        dest_fallback ==
            find_tagged_element_by_keywords(elements, DestinationKeywords, FieldTags,
                                            IdOf(origin.el))
        dest ==
            IF (kept_dest.el = NoElement \/ kept_dest.score < 35)
               /\ dest_fallback # NoElement
            THEN Picked(dest_fallback, Max({kept_dest.score, 60}))
            ELSE kept_dest
        origin_option == find_option_for_value(elements, GetSeq(action_plan.entities, "origin"),
                                               used_3)
        used_4 == used_3 \cup IdOf(origin_option.el)
        dest_option == find_option_for_value(elements,
                                             GetSeq(action_plan.entities, "destination"),
                                             used_4)
    IN IF \/ origin.score < 35 \/ dest.score < 35
          \/ origin.el = NoElement \/ dest.el = NoElement
       THEN NavClarification(
                (IF origin.el # NoElement THEN <<origin.el.element_id>> ELSE <<>>)
                \o (IF dest.el # NoElement THEN <<dest.el.element_id>> ELSE <<>>),
                "low_confidence_target")
       ELSE ExecutionPlan(
                <<ExecutionStep("s_origin", "input", origin.el, origin.score)>>
                \o (IF origin_option.el # NoElement /\ origin_option.score >= 50
                    THEN <<ExecutionStep("s_origin_option", "click", origin_option.el,
                                         origin_option.score)>>
                    ELSE <<>>)
                \o <<ExecutionStep("s_destination", "input", dest.el, dest.score)>>
                \o (IF dest_option.el # NoElement /\ dest_option.score >= 50
                    THEN <<ExecutionStep("s_destination_option", "click", dest_option.el,
                                         dest_option.score)>>
                    ELSE <<>>)
                \o (IF search.el # NoElement
                    THEN <<ExecutionStep("s_search", "click", search.el, search.score)>>
                    ELSE <<>>))

\* decimal numerals of the days, months and years the dates of the model use
Numeral(n) ==
    CASE n = 1 -> "1" [] n = 2 -> "2" [] n = 3 -> "3" [] n = 4 -> "4"
      [] n = 9 -> "9" [] n = 12 -> "12" [] n = 31 -> "31"
      [] n = 2025 -> "2025" [] n = 2026 -> "2026"
      [] OTHER -> "?"

month_name == <<"january", "february", "march", "april", "may", "june", "july",
                "august", "september", "october", "november", "december">>

\* date.isoformat() as one token
isoformat(date) ==
    CASE date = [year |-> 2026, month |-> 3, day |-> 4] -> "2026-03-04"
      [] date = [year |-> 2026, month |-> 3, day |-> 9] -> "2026-03-09"
      [] date = [year |-> 2025, month |-> 12, day |-> 31] -> "2025-12-31"
      [] OTHER -> "?"

\* utils_dates.date_keywords: the verbose, short, ISO and day-only variants
\* (the numeric variants with separators and the abbreviated month names
\* are left out)
date_keywords(date) ==
    IF date = NoDate THEN <<>>
    ELSE << <<Numeral(date.day), month_name[date.month], Numeral(date.year)>>,
            <<month_name[date.month], Numeral(date.day), Numeral(date.year)>>,
            <<month_name[date.month], Numeral(date.day)>>,
            <<Numeral(date.day), month_name[date.month]>>,
            <<isoformat(date)>>,
            <<Numeral(date.day)>> >>

DateCellAt(elements, date, keywords, exclude_ids) ==
    LET direct == {i \in 1..Len(elements) :
                     /\ elements[i].element_id \notin exclude_ids
                     /\ \/ Contains(elements[i].aria_label, <<isoformat(date)>>)
                        \/ \E k \in 1..Len(keywords) :
                              Contains(elements[i].aria_label \o elements[i].text,
                                       keywords[k])}
    IN IF direct = {}
       THEN pick_best_element(elements, keywords, {"button", "div", "span", "td"},
                              {"button", "gridcell", "option"}, exclude_ids)
       ELSE Picked(elements[Min(direct)],
                   IF Contains(elements[Min(direct)].aria_label, <<isoformat(date)>>)
                   THEN 95 ELSE 90)

find_date_cell(elements, date, exclude_ids) ==
    IF date = NoDate THEN Picked(NoElement, 0)
    ELSE DateCellAt(elements, date, date_keywords(date), exclude_ids)

SearchInputAt(elements, search_input) ==
    [input |-> search_input,
     button |-> pick_best_element(
                    elements,
                    << <<"search">>, <<"go">>, <<"submit">>, <<"ara">>, <<"bul">>,
                       <<"find">> >>,
                    {"button", "input"}, {"button"}, IdOf(search_input.el))]

find_search_elements(elements, site_hint) ==
    SearchInputAt(
        elements,
        pick_best_element(
            elements,
            << <<"search">>, <<"find">>, <<"query">>, <<"ara">>, <<"bul">> >>
                \o (IF site_hint # <<>> THEN <<site_hint>> ELSE <<>>),
            {"input", "textarea"}, {"textbox", "search", "combobox"}, {}))

\* the elements the result pickers look at (every element of the model is
\* visible)
Clickable(elements) ==
    {i \in 1..Len(elements) :
        /\ elements[i].enabled
        /\ \/ elements[i].tag \in {"a", "button", "div", "span", "li"}
           \/ elements[i].role \in {"link", "button", "option", "listitem",
                                    "menuitem"}}

\* candidates.sort by descending score; no element of the model has a
\* bounding_rect, so rect_y is 0 and equal scores keep the document order
NthOf(elements, candidates, idx, keywords) ==
    LET score(i) == keyword_score(combine_element_text(elements[i]), keywords)
        before(i) == {j \in candidates :
                        score(j) > score(i) \/ (score(j) = score(i) /\ j < i)}
        at == {i \in candidates : Cardinality(before(i)) = idx}
    IN IF at = {} THEN Picked(NoElement, 0)
       ELSE Picked(elements[Min(at)], score(Min(at)))

pick_nth_clickable_element(elements, position, keywords) ==
    NthOf(elements, Clickable(elements),
          IF position > 0 THEN position - 1
          ELSE Cardinality(Clickable(elements)) - 1,
          keywords)

unit_to_seconds ==
    [second |-> 1, minute |-> 60, hour |-> 3600, day |-> 86400, week |-> 604800,
     month |-> 2592000, year |-> 31536000]

CountOf(token) ==
    CASE token = "1" -> 1 [] token = "2" -> 2 [] token = "3" -> 3
      [] token = "4" -> 4 [] token = "9" -> 9 [] OTHER -> 0

\* utils_dom_scoring.recency_score, times 100: "now", or the first
\* "<n> <unit> ago"
recency_score(text) ==
    LET ago == {i \in 1..(Len(text) - 2) :
                  /\ CountOf(text[i]) > 0
                  /\ text[i + 1] \in DOMAIN unit_to_seconds
                  /\ text[i + 2] = "ago"}
    IN IF Contains(text, <<"now">>) THEN 100
       ELSE IF ago = {} THEN 0
       ELSE (100 * 86400)
                \div (86400 + CountOf(text[Min(ago)])
                                 * unit_to_seconds[text[Min(ago) + 1]])

\* 0.7 * freshness + 0.3 * relevance, times 1000
LatestScore(el, keywords) ==
    7 * recency_score(combine_element_text(el))
    + 3 * keyword_score(combine_element_text(el), keywords)

\* the first element with the highest score above 0; the score is times 1000
pick_latest_clickable_element(elements, keywords) ==
    LET scored == {i \in Clickable(elements) : LatestScore(elements[i], keywords) > 0}
        best_score == Max({LatestScore(elements[i], keywords) : i \in scored})
    IN IF scored = {} THEN Picked(NoElement, 0)
       ELSE Picked(elements[Min({i \in scored :
                        LatestScore(elements[i], keywords) = best_score})],
                   best_score)

\* lines 134-152 and 162-180: scroll to the result and click it
ResultSteps(clickable, floor) ==
    <<ValueStep("s_scroll_result", "scroll", <<"down">>, 60),
      ExecutionStep("s_click_result", "click", clickable.el,
                    Max({floor, clickable.score}))>>

SearchSteps(query, found) ==
    IF found.input.el = NoElement \/ found.input.score < 35
    THEN NavClarification(<<>>, "missing_search_box")
    ELSE ExecutionPlan(
             <<ExecutionStep("s_search_input", "input", found.input.el,
                             found.input.score)>>
             \o (IF found.button.el # NoElement
                 THEN <<ExecutionStep("s_search_submit", "click", found.button.el,
                                      Max({50, found.button.score}))>>
                 ELSE <<>>))

\* lines 131-218, after the query and the page are settled; the score of
\* the freshest result is times 1000
SearchOnPage(action_plan, elements, query, site_hint, latest, nth) ==
    IF GetInt(action_plan.entities, "latest") # 0
       /\ latest.el # NoElement /\ latest.score >= 450
    THEN ExecutionPlan(ResultSteps([latest EXCEPT !.score = latest.score \div 10], 55))
    ELSE IF GetInt(action_plan.entities, "position") # 0
            /\ nth.el # NoElement /\ nth.score >= 50
    THEN ExecutionPlan(ResultSteps(nth, 50))
    ELSE SearchSteps(query, find_search_elements(elements, site_hint))

SearchFor(action_plan, dom_map, query, site_hint, result_keywords) ==
    SearchOnPage(action_plan, dom_map.elements, query, site_hint,
                 pick_latest_clickable_element(dom_map.elements, result_keywords),
                 pick_nth_clickable_element(dom_map.elements,
                                            GetInt(action_plan.entities, "position"),
                                            result_keywords))

SearchWith(action_plan, dom_map, query, site_hint) ==
    IF query = <<>> THEN NavClarification(<<>>, "missing_query")
    ELSE IF /\ GetSeq(action_plan.entities, "url") # <<>>
            /\ dom_map.page_url # <<>>
            /\ ~Contains(dom_map.page_url, GetSeq(action_plan.entities, "url"))
    THEN build_execution_plan_for_navigation(action_plan)
    ELSE SearchFor(action_plan, dom_map, query, site_hint,
                   <<query, site_hint, action_plan.target>>)

build_execution_plan_for_search_content(action_plan, dom_map) ==
    SearchWith(action_plan, dom_map,
               Or(action_plan.value, GetSeq(action_plan.entities, "query")),
               Or(GetSeq(action_plan.entities, "site"), action_plan.target))

\* int(position_raw), 1 when there is none or it is not a number
PositionOf(action_plan) ==
    IF GetInt(action_plan.entities, "position") # 0
    THEN GetInt(action_plan.entities, "position")
    ELSE IF Len(action_plan.value) = 1 /\ CountOf(action_plan.value[1]) > 0
    THEN CountOf(action_plan.value[1])
    ELSE 1

ClickSteps(action_plan, clickable) ==
    IF clickable.el = NoElement THEN NavClarification(<<>>, "no_click_target")
    ELSE ExecutionPlan(
             (IF GetSeq(action_plan.entities, "scroll_direction") # <<>>
              THEN <<ValueStep("s_scroll_for_click", "scroll",
                               GetSeq(action_plan.entities, "scroll_direction"), 60)>>
              ELSE <<>>)
             \o <<ExecutionStep("s_click_target", "click", clickable.el,
                                Max({50, clickable.score}))>>)

build_execution_plan_for_click_result(action_plan, dom_map) ==
    ClickSteps(action_plan,
               pick_nth_clickable_element(
                   dom_map.elements, PositionOf(action_plan),
                   <<action_plan.target, GetSeq(action_plan.entities, "query"),
                     GetSeq(action_plan.entities, "site")>>))

\* keyword_groups of build_execution_plan_for_destination_search (the
\* Turkish keywords are written without their diacritics)
StayKeywords ==
    << <<"destination">>, <<"to">>, <<"city">>, <<"location">>, <<"where">>,
       <<"stay">>, <<"otel">>, <<"konaklama">>, <<"varis">> >>

StayDateKeywords ==
    << <<"date">>, <<"check-in">>, <<"check", "out">>, <<"when">>, <<"tarih">>,
       <<"tarihi">>, <<"tarih", "sec">>, <<"giris">>, <<"cikis">> >>

StaySearchKeywords ==
    << <<"search">>, <<"find">>, <<"go">>, <<"ara">>, <<"bul">>, <<"devam">>,
       <<"apply">>, <<"submit">>, <<"check", "availability">> >>

\* mutation: the submit click is put in front of the fields
DestinationSteps_SubmitFirst(dest, dest_option, date, date_cell, search) ==
    (IF search.el # NoElement
     THEN <<ExecutionStep("s_search", "click", search.el, search.score)>>
     ELSE <<>>)
    \o <<ExecutionStep("s_destination", "input", dest.el, dest.score)>>

\* lines 335-408
DestinationSteps(dest, dest_option, date, date_cell, search) ==
    <<ExecutionStep("s_destination", "input", dest.el, dest.score)>>
    \o (IF dest_option.el # NoElement /\ dest_option.score >= 50
        THEN <<ExecutionStep("s_destination_option", "click", dest_option.el,
                             dest_option.score)>>
        ELSE <<>>)
    \o (IF date_cell.el # NoElement
        THEN (IF date.el # NoElement
              THEN <<ExecutionStep("s_date_open", "click", date.el,
                                   Max({date.score, 50}))>>
              ELSE <<>>)
             \o <<ExecutionStep("s_date_pick", "click", date_cell.el,
                                date_cell.score)>>
        ELSE IF date.el # NoElement
        THEN <<ExecutionStep("s_date_input", "input", date.el, date.score)>>
        ELSE <<>>)
    \o (IF search.el # NoElement
        THEN <<ExecutionStep("s_search", "click", search.el, search.score)>>
        ELSE <<>>)

\* lines 321-333
DestinationCells(elements, entities, dest, date, search, used_ids, dest_option) ==
    DestinationSteps(
        dest, dest_option, date,
        find_date_cell(elements,
                       IF GetDate(entities, "date") # NoDate
                       THEN GetDate(entities, "date")
                       ELSE GetDate(entities, "date_start"),
                       used_ids \cup IdOf(dest_option.el)),
        search)

\* lines 304-333
DestinationFilled(elements, entities, first_dest, date, search, used_ids, fallback) ==
    IF (first_dest.score < 35 \/ first_dest.el = NoElement) /\ fallback = NoElement
    THEN NavClarification(<<>>, "low_confidence_target")
    ELSE ExecutionPlan(
             DestinationCells(
                 elements, entities,
                 IF first_dest.score < 35 \/ first_dest.el = NoElement
                 THEN Picked(fallback, Max({first_dest.score, 60}))
                 ELSE first_dest,
                 date, search, used_ids,
                 find_option_for_value(elements, GetSeq(entities, "destination"),
                                       used_ids)))

\* lines 300-302
DestinationSearch(elements, entities, first_dest, date, search) ==
    DestinationFilled(elements, entities, first_dest, date, search,
                      IdOf(first_dest.el) \cup IdOf(date.el) \cup IdOf(search.el),
                      find_tagged_element_by_keywords(
                          elements, StayKeywords, {"input", "textarea", "select"}, {}))

\* lines 296-298
DestinationDate(elements, entities, first_dest, date) ==
    DestinationSearch(elements, entities, first_dest, date,
                      pick_best_element(elements, StaySearchKeywords, {"button", "a"},
                                        {"button"},
                                        IdOf(first_dest.el) \cup IdOf(date.el)))

\* lines 292-294
DestinationPicked(elements, entities, first_dest) ==
    DestinationDate(elements, entities, first_dest,
                    pick_best_element(elements, StayDateKeywords,
                                      {"input", "textarea", "select", "button", "div",
                                       "span"},
                                      {"combobox", "textbox", "button"},
                                      IdOf(first_dest.el)))

build_execution_plan_for_destination_search(action_plan, dom_map) ==
    DestinationPicked(dom_map.elements, action_plan.entities,
                      pick_best_element(dom_map.elements, StayKeywords,
                                        {"input", "textarea", "select"},
                                        {"combobox", "textbox"}, {}))

\* accessibility tree: the intent of an action plan
build_intent_from_action_plan(action_plan) ==
    [action |-> action_plan.action,
     target |-> action_plan.target,
     value |-> action_plan.value,
     date |-> IF GetDate(action_plan.entities, "date") # NoDate
              THEN GetDate(action_plan.entities, "date")
              ELSE GetDate(action_plan.entities, "date_start"),
     date_end |-> GetDate(action_plan.entities, "date_end"),
     location |-> GetSeq(action_plan.entities, "destination"),
     origin |-> GetSeq(action_plan.entities, "origin")]

InputRoles == {"textbox", "combobox", "searchbox"}

\* "search" in action_lower
IsSearchAction(action) ==
    action \in {"search", "search_flights", "flight_search", "search_hotels",
                "search_stays", "search_travel", "search_content", "search_site"}

\* "input", "search" or "type" in action_lower
IsInputAction(action) == action \in {"input", "type"} \/ IsSearchAction(action)

\* "click" in action_lower
IsClickAction(action) == action \in {"click", "click_result", "click_item"}

\* "date" in action_lower
IsDateAction(action) ==
    action \in {"select_date", "pick_date", "update_flight_dates", "update_dates"}

\* any keyword of the date in the text
date_matches_name(date, name) ==
    \E k \in 1..Len(date_keywords(date)) : Contains(name, date_keywords(date)[k])

\* 1000 times the score, 0 for a text that is not asked for
InTexts(wanted, name, description, by_name, by_description) ==
    IF wanted = <<>> THEN 0
    ELSE IF Contains(name, wanted) THEN by_name
    ELSE IF Contains(description, wanted) THEN by_description
    ELSE 0

\* str.isdigit() of a name
isdigit(name) == Len(name) = 1 /\ name[1] \in {"1", "2", "3", "4", "9", "12", "31"}

\* no element of the model carries a value, so the value bonus is 0
score_element(el, intent) ==
    LET by_date ==
            IF intent.date = NoDate THEN 0
            ELSE IF el.name # <<>> /\ date_matches_name(intent.date, el.name) THEN 900
            ELSE IF el.description # <<>>
                    /\ date_matches_name(intent.date, el.description) THEN 700
            ELSE 0
        target_hits == Cardinality({k \in 1..Len(intent.target) :
                                       \/ Contains(el.name, <<intent.target[k]>>)
                                       \/ Contains(el.description, <<intent.target[k]>>)})
        by_target == Min({500, target_hits * 150})
        by_role ==
            (IF IsInputAction(intent.action) /\ el.role \in InputRoles THEN 300 ELSE 0)
            + (IF IsClickAction(intent.action) /\ el.role \in {"button", "link", "menuitem"}
               THEN 200 ELSE 0)
            + (IF IsDateAction(intent.action) \/ intent.date # NoDate
               THEN (IF el.role = "gridcell" THEN 400
                     ELSE IF el.role = "button" /\ isdigit(el.name) THEN 300
                     ELSE 0)
               ELSE 0)
        by_search ==
            IF IsSearchAction(intent.action)
               /\ \E kw \in {"search", "find", "go", "submit", "apply", "done", "confirm"} :
                     Contains(el.name, <<kw>>)
            THEN 400 ELSE 0
        by_pattern ==
            IF el.role \in InputRoles
               /\ \E p \in {"where", "destination", "origin", "from", "to", "check-in",
                            "check-out", "date"} : Contains(el.name, <<p>>)
            THEN 200 ELSE 0
        score == by_date
                 + InTexts(intent.location, el.name, el.description, 700, 500)
                 + InTexts(intent.origin, el.name, el.description, 600, 400)
                 + by_target + by_role + by_search + by_pattern
    IN Min({1000, IF el.disabled THEN score \div 10 ELSE score})

NoAXElement ==
    [backend_node_id |-> 0, role |-> "", name |-> <<>>, description |-> <<>>,
     disabled |-> FALSE, focused |-> FALSE]

\* the first candidate with the highest score (the sort is stable)
match_element_by_intent(ax_tree, intent) ==
    LET elements == ax_tree.elements
        candidates == {i \in 1..Len(elements) :
                         /\ ~(elements[i].disabled /\ intent.action \notin {"read", "check"})
                         /\ score_element(elements[i], intent) > 0}
        best_score == Max({score_element(elements[i], intent) : i \in candidates})
    IN IF candidates = {} THEN Picked(NoAXElement, 0)
       ELSE Picked(elements[Min({i \in candidates :
                        score_element(elements[i], intent) = best_score})],
                   best_score)

\* no element of the model is selected, so a calendar cell is preferred
\* when it is focused
pick_best_guess(ax_tree, intent) ==
    LET elements == ax_tree.elements
        gridcells == {i \in 1..Len(elements) :
                        elements[i].role = "gridcell" /\ ~elements[i].disabled}
        inputs == {i \in 1..Len(elements) :
                     elements[i].role \in InputRoles /\ ~elements[i].disabled}
        buttons == {i \in 1..Len(elements) :
                      elements[i].role \in {"button", "link"} /\ ~elements[i].disabled}
        usable == {i \in 1..Len(elements) : ~elements[i].disabled}
        Focused(S) == {i \in S : elements[i].focused}
    IN IF (IsDateAction(intent.action) \/ intent.date # NoDate) /\ gridcells # {}
       THEN elements[Min(IF Focused(gridcells) # {} THEN Focused(gridcells)
                         ELSE gridcells)]
       ELSE IF IsInputAction(intent.action) /\ inputs # {}
       THEN elements[Min(IF Focused(inputs) # {} THEN Focused(inputs) ELSE inputs)]
       ELSE IF IsClickAction(intent.action) /\ buttons # {}
       THEN elements[Min(buttons)]
       ELSE IF usable # {} THEN elements[Min(usable)]
       ELSE NoAXElement

AXExecutionStep(step_id, action_type, el, confidence) ==
    [step_id |-> step_id, action_type |-> action_type,
     element_id |-> el.backend_node_id, confidence |-> confidence]

\* the first position of `patterns` whose pattern is in the one or the
\* other text, 0 when there is none
FirstPattern(patterns, text_a, text_b) ==
    LET hits == {k \in 1..Len(patterns) :
                   Contains(text_a, patterns[k]) \/ Contains(text_b, patterns[k])}
    IN IF hits = {} THEN 0 ELSE Min(hits)

description_patterns(field_type) ==
    CASE field_type = "destination" ->
            << <<"destination">>, <<"going", "to">>, <<"where", "to">>,
               <<"to", "where">>, <<"flying", "to">>,
               <<"enter", "your", "destination">>,
               <<"where", "are", "you", "going">>, <<"arrival">> >>
      [] field_type = "origin" ->
            << <<"flying", "from">>, <<"from", "where">>, <<"leaving", "from">>,
               <<"departure", "city">>,
               <<"enter", "the", "city", "you're", "flying", "from">>,
               <<"where", "from">> >>
      [] field_type = "search" ->
            << <<"search">>, <<"find">>, <<"query">>, <<"look", "up">> >>
      [] OTHER -> << <<field_type>> >>

name_patterns(field_type) ==
    CASE field_type = "destination" ->
            << <<"destination">>, <<"where">>, <<"to">>, <<"going", "to">>,
               <<"city">>, <<"hotel">>, <<"location">> >>
      [] field_type = "origin" ->
            << <<"origin">>, <<"from">>, <<"leaving", "from">>, <<"departure">> >>
      [] field_type = "search" -> << <<"search">>, <<"find">>, <<"query">> >>
      [] OTHER -> << <<field_type>> >>

\* the score of find_input_field for one element, times 1000
InputFieldScore(el, desc_patterns, nm_patterns, by_name) ==
    IF FirstPattern(desc_patterns, el.description, <<>>) # 0 THEN 1000
    ELSE IF by_name = 0 THEN 0
    ELSE IF Contains(el.name, nm_patterns[by_name]) THEN 500
    ELSE 400

InputFieldScoreOf(el, field_type) ==
    InputFieldScore(el, description_patterns(field_type), name_patterns(field_type),
                    FirstPattern(name_patterns(field_type), el.name, el.description))

\* the first element with the highest score (the sort is stable); ax_id and
\* backend_node_id name the same node
BestOf(elements, candidates, score) ==
    IF candidates = {} THEN NoAXElement
    ELSE elements[Min({i \in candidates :
                          \A j \in candidates : score[j] <= score[i]})]

find_input_field(elements, field_type, exclude_ax_ids) ==
    BestOf(elements,
           {i \in 1..Len(elements) :
              /\ elements[i].role \in {"textbox", "combobox", "searchbox", "spinbutton"}
              /\ ~elements[i].disabled
              /\ elements[i].backend_node_id \notin exclude_ax_ids
              /\ InputFieldScoreOf(elements[i], field_type) > 0},
           [i \in 1..Len(elements) |-> InputFieldScoreOf(elements[i], field_type)])

start_patterns ==
    << <<"depart">>, <<"departure">>, <<"check-in">>, <<"check", "in">>,
       <<"checkin">>, <<"start", "date">>, <<"from", "date">>, <<"outbound">>,
       <<"leave">> >>

end_patterns ==
    << <<"return">>, <<"check-out">>, <<"check", "out">>, <<"checkout">>,
       <<"end", "date">>, <<"to", "date">>, <<"inbound">>, <<"back">> >>

negative_patterns ==
    {"traveler", "guest", "adult", "child", "room", "passenger", "cabin", "class",
     "seat"}

DateButtonScore(el, patterns) ==
    (IF FirstPattern(patterns, el.name, <<>>) # 0 THEN 1000 ELSE 0)
    + (IF \E m \in 1..12 : Contains(el.name, <<month_name[m]>>) THEN 700 ELSE 0)

DateButtonAmong(elements, patterns, exclude_ax_ids) ==
    BestOf(elements,
           {i \in 1..Len(elements) :
              /\ elements[i].role = "button"
              /\ ~elements[i].disabled
              /\ elements[i].backend_node_id \notin exclude_ax_ids
              /\ ~\E neg \in negative_patterns : Contains(elements[i].name, <<neg>>)
              /\ DateButtonScore(elements[i], patterns) > 0},
           [i \in 1..Len(elements) |-> DateButtonScore(elements[i], patterns)])

find_date_button(elements, date_type, exclude_ax_ids) ==
    DateButtonAmong(elements,
                    IF date_type = "start" THEN start_patterns ELSE end_patterns,
                    exclude_ax_ids)

\* the length of a token in characters
TokenLen(token) ==
    CASE token \in {"4", "9"} -> 1
      [] token \in {"go", "to", "31", "12"} -> 2
      [] token \in {"from", "find", "rome"} -> 4
      [] token \in {"paris", "march", "where"} -> 5
      [] token \in {"search", "depart", "return"} -> 6
      [] token = "flights" -> 7
      [] token = "everywhere-explore-every-destination-you-can-think-of" -> 53
      [] OTHER -> 8

\* len(name): the tokens and the blanks between them
RECURSIVE NameLen(_)
NameLen(name) ==
    IF name = <<>> THEN 0
    ELSE TokenLen(Head(name)) + (IF Len(name) > 1 THEN 1 ELSE 0) + NameLen(Tail(name))

\* a name of at most two characters
ShortName(name) == name # <<>> /\ NameLen(name) <= 2

\* a keyword of more than four characters
LongKeyword(kw) == NameLen(kw) > 4

DateCellAmong(elements, keywords) ==
    LET cells == {i \in 1..Len(elements) :
                    /\ \/ elements[i].role = "gridcell"
                       \/ elements[i].role = "button" /\ ShortName(elements[i].name)
                    /\ ~elements[i].disabled
                    /\ \E k \in 1..Len(keywords) : Contains(elements[i].name, keywords[k])}
        buttons == {i \in 1..Len(elements) :
                      /\ elements[i].role = "button"
                      /\ ~elements[i].disabled
                      /\ \E k \in 1..Len(keywords) :
                            LongKeyword(keywords[k])
                            /\ Contains(elements[i].name, keywords[k])}
    IN IF cells # {} THEN elements[Min(cells)]
       ELSE IF buttons # {} THEN elements[Min(buttons)]
       ELSE NoAXElement

\* ax_matcher.find_date_cell
find_ax_date_cell(elements, target_date) ==
    DateCellAmong(elements, date_keywords(target_date))

\* the loop over the keywords of find_action_button (lines 568-587)
RECURSIVE KeywordScore(_, _)
KeywordScore(name, keywords) ==
    IF keywords = <<>> THEN 0
    ELSE IF name = Head(keywords) THEN 1500
    ELSE IF Len(name) >= Len(Head(keywords))
            /\ SubSeq(name, 1, Len(Head(keywords))) = Head(keywords)
    THEN (IF NameLen(name) < 20 THEN 1000 ELSE 500)
    ELSE (IF Contains(name, Head(keywords)) THEN 300 ELSE 0)
         + KeywordScore(name, Tail(keywords))

ActionButtonScore(el, matched) ==
    LET with_role == matched + (IF el.role = "button" THEN 500 ELSE 0)
        penalised == IF NameLen(el.name) > 50 THEN (with_role * 3) \div 10
                     ELSE IF NameLen(el.name) > 30 THEN (with_role * 6) \div 10
                     ELSE with_role
    IN penalised + (IF el.role = "button" THEN 200 ELSE 0)

find_action_button(elements, keywords) ==
    BestOf(elements,
           {i \in 1..Len(elements) :
              /\ elements[i].role \in {"button", "link"}
              /\ ~elements[i].disabled
              /\ elements[i].name # <<>>
              /\ KeywordScore(elements[i].name, keywords) > 0},
           [i \in 1..Len(elements) |->
               ActionButtonScore(elements[i],
                                 KeywordScore(elements[i].name, keywords))])

\* a step that acts on the page and not on a node (backend_node_id=0)
AXValueStep(step_id, action_type, value, confidence) ==
    [step_id |-> step_id, action_type |-> action_type, element_id |-> 0,
     confidence |-> confidence, value |-> value]

AXIdOf(el) == IF el = NoAXElement THEN {} ELSE {el.backend_node_id}

FieldStep(step_id, field) ==
    IF field = NoAXElement THEN <<>>
    ELSE <<AXExecutionStep(step_id,
                           IF field.role = "combobox" THEN "input_select" ELSE "input",
                           field, 700)>>

\* lines 347-374 and 377-404: the cell of an open calendar, else the button
\* that opens it
DateSteps(date, cell, button, cell_id, button_id) ==
    IF date = NoDate THEN <<>>
    ELSE IF cell # NoAXElement THEN <<AXExecutionStep(cell_id, "click", cell, 850)>>
    ELSE IF button # NoAXElement
    THEN <<AXExecutionStep(button_id, "click", button, 750)>>
    ELSE <<>>

\* the ids the date steps add to used_ax_ids
DateUsed(date, cell, button) ==
    IF date = NoDate THEN {}
    ELSE IF cell # NoAXElement THEN AXIdOf(cell)
    ELSE AXIdOf(button)

SearchButtonStep(step_id, button, confidence) ==
    IF button = NoAXElement THEN <<>>
    ELSE <<AXExecutionStep(step_id, "click", button, confidence)>>

\* lines 376-419
FormEnd(elements, intent, steps, used_ax_ids, end_cell) ==
    steps
    \o DateSteps(intent.date_end, end_cell,
                 IF end_cell = NoAXElement /\ intent.date_end # NoDate
                 THEN find_date_button(elements, "end", used_ax_ids)
                 ELSE NoAXElement,
                 "s_date_end", "s_date_end_btn")
    \o SearchButtonStep("s_search",
                        find_action_button(elements,
                                           << <<"search">>, <<"find">>, <<"go">> >>),
                        900)

\* lines 343-375
FormStart(elements, intent, steps, used_ax_ids, start_cell, start_button) ==
    FormEnd(elements, intent,
            steps \o DateSteps(intent.date, start_cell, start_button,
                               "s_date_start", "s_date_start_btn"),
            used_ax_ids \cup DateUsed(intent.date, start_cell, start_button),
            IF intent.date_end = NoDate THEN NoAXElement
            ELSE find_ax_date_cell(elements, intent.date_end))

FormDates(elements, intent, steps, used_ax_ids, start_cell) ==
    FormStart(elements, intent, steps, used_ax_ids, start_cell,
              IF start_cell = NoAXElement /\ intent.date # NoDate
              THEN find_date_button(elements, "start", used_ax_ids)
              ELSE NoAXElement)

\* lines 324-342
FormDestination(elements, intent, steps, used_ax_ids, dest_field) ==
    FormDates(elements, intent, steps \o FieldStep("s_destination", dest_field),
              used_ax_ids \cup AXIdOf(dest_field),
              IF intent.date = NoDate THEN NoAXElement
              ELSE find_ax_date_cell(elements, intent.date))

\* lines 303-323
FormOrigin(elements, intent, origin_field) ==
    FormDestination(elements, intent, FieldStep("s_origin", origin_field),
                    AXIdOf(origin_field),
                    IF intent.location = <<>> THEN NoAXElement
                    ELSE find_input_field(elements, "destination",
                                          AXIdOf(origin_field)))

_build_search_form_steps(ax_tree, intent) ==
    FormOrigin(ax_tree.elements, intent,
               IF intent.origin = <<>> THEN NoAXElement
               ELSE find_input_field(ax_tree.elements, "origin", {}))

ContentSteps(intent, search_input, search_btn) ==
    (IF search_input # NoAXElement /\ intent.value # <<>>
     THEN <<AXExecutionStep("s_search_input", "input", search_input, 800)>>
     ELSE <<>>)
    \o SearchButtonStep("s_search_btn", search_btn, 700)

_build_search_content_steps(ax_tree, intent) ==
    ContentSteps(intent, find_input_field(ax_tree.elements, "search", {}),
                 find_action_button(ax_tree.elements,
                                    << <<"search">>, <<"go">>, <<"find">> >>))

GuessType(el) == IF el.role \in InputRoles THEN "input" ELSE "click"

\* mutation: the steps are wrapped in a plan whether or not there are any
GuessedPlan_EmptyPlan(steps, match, guess) == ExecutionPlan(steps)

\* lines 237-283: the best guess when no branch built a step
GuessedPlan(steps, match, guess) ==
    IF steps # <<>> THEN ExecutionPlan(steps)
    ELSE IF match.el # NoAXElement
    THEN ExecutionPlan(<<AXExecutionStep("s_guess", GuessType(match.el), match.el,
                                         (match.score * 8) \div 10)>>)
    ELSE IF guess # NoAXElement
    THEN ExecutionPlan(<<AXExecutionStep("s_fallback", GuessType(guess), guess, 300)>>)
    ELSE NavClarification(<<>>, "no_candidates")

\* lines 183-235
BranchSteps(action, ax_tree, intent, match) ==
    CASE action \in {"search_flights", "flight_search", "search_hotels",
                     "search_stays", "search_travel"} ->
            _build_search_form_steps(ax_tree, intent)
      [] action \in {"search_content", "search", "search_site"} ->
            _build_search_content_steps(ax_tree, intent)
      [] action \in {"click_result", "click_item", "click"} ->
            IF match.el # NoAXElement
            THEN <<AXExecutionStep("s_click", "click", match.el, match.score)>>
            ELSE <<>>
      [] action \in {"select_date", "pick_date"} ->
            IF intent.date # NoDate
               /\ find_ax_date_cell(ax_tree.elements, intent.date) # NoAXElement
            THEN <<AXExecutionStep("s_date", "click",
                                   find_ax_date_cell(ax_tree.elements, intent.date),
                                   800)>>
            ELSE <<>>
      [] action \in {"input", "type", "fill"} ->
            IF match.el # NoAXElement
            THEN <<AXExecutionStep("s_input", "input", match.el, match.score)>>
            ELSE <<>>
      [] OTHER -> <<>>

MatchedPlan(action, ax_tree, intent, match) ==
    GuessedPlan(BranchSteps(action, ax_tree, intent, match), match,
                pick_best_guess(ax_tree, intent))

build_ax_execution_plan(nav) ==
    LET action == nav.action_plan.action
        entities == nav.action_plan.entities
    IN IF action \in {"scroll", "scroll_page", "scroll_down", "scroll_up"}
       THEN ExecutionPlan(<<AXValueStep("s_scroll", "scroll",
                                        Or(GetSeq(entities, "scroll_direction"),
                                           Or(nav.action_plan.value, <<"down">>)),
                                        1000)>>)
       ELSE IF action \in {"history_back", "back", "go_back"}
       THEN ExecutionPlan(<<AXValueStep("s_back", "history_back", <<>>, 1000)>>)
       ELSE IF action \in {"open_site", "navigate"}
       THEN ExecutionPlan(<<AXValueStep("s_navigate", "navigate",
                                        Or(GetSeq(entities, "url"),
                                           nav.action_plan.value),
                                        1000)>>)
       ELSE MatchedPlan(action, nav.ax_tree,
                        build_intent_from_action_plan(nav.action_plan),
                        match_element_by_intent(
                            nav.ax_tree,
                            build_intent_from_action_plan(nav.action_plan)))

\* the plan or clarification of asi_client.navigate, NoRemote when the
\* client is not configured or answers nothing usable
NoRemote == [schema_version |-> "", steps |-> <<>>, reason |-> ""]

RemotePlans ==
    { [NoRemote EXCEPT !.schema_version = "executionplan_v1",
                       !.steps = <<[step_id |-> "s1", action_type |-> "click",
                                    element_id |-> "e1", confidence |-> 80]>>],
      [NoRemote EXCEPT !.schema_version = "clarification_v1",
                       !.reason = "ambiguous_intent"],
      [NoRemote EXCEPT !.schema_version = "other"] }

has_dates(entities) ==
    \E k \in {"date", "date_start", "date_end"} : GetDate(entities, k) # NoDate

is_flight_url(page_url) ==
    HasDateSegment(page_url)
    \/ \E i \in 1..Len(page_url) : page_url[i] = "www.skyscanner.net"

\* lines 520-568
HeuristicPlan(action, action_plan, dom_map) ==
    CASE action \in {"open_site", "navigate"} ->
            build_execution_plan_for_navigation(action_plan)
      [] action \in {"history_back", "back", "go_back"} ->
            build_execution_plan_for_history_back(action_plan)
      [] action \in {"scroll", "scroll_page"} ->
            build_execution_plan_for_scroll(action_plan)
      [] action \in {"search_content", "search", "search_site"} ->
            build_execution_plan_for_search_content(action_plan, dom_map)
      [] action \in {"click_result", "click_item", "click"} ->
            build_execution_plan_for_click_result(action_plan, dom_map)
      [] action \in {"search_hotels", "search_stays", "search_travel"} ->
            build_execution_plan_for_destination_search(action_plan, dom_map)
      [] action \in {"update_flight_dates", "update_dates"} ->
            build_execution_plan_for_flight_date_update(action_plan, dom_map)
      [] action \in {"search_flights", "flight_search", "travel_flights"} ->
            build_execution_plan_for_flight_search(action_plan, dom_map)
      [] OTHER -> NavClarification(<<>>, "unsupported_action")

\* lines 505-518: the LLM's answer when it is one of the two schemas
RemoteOrHeuristic(nav, action) ==
    IF nav.remote.schema_version = "clarification_v1"
    THEN NavClarification(<<>>, nav.remote.reason)
    ELSE IF nav.remote.schema_version = "executionplan_v1"
    THEN ExecutionPlan(nav.remote.steps)
    ELSE HeuristicPlan(action, nav.action_plan, nav.dom_map)

\* lines 466-503: the URL date update, the reroute of a flight search with
\* dates on a flight page, and the fast path of back and scroll
build_execution_plan(nav) ==
    LET action == nav.action_plan.action
    IN IF action \in {"update_flight_dates", "update_dates"}
       THEN build_execution_plan_for_flight_date_update(nav.action_plan, nav.dom_map)
       ELSE IF /\ action \in {"search_flights", "flight_search", "travel_flights"}
               /\ has_dates(nav.action_plan.entities)
               /\ is_flight_url(nav.dom_map.page_url)
       THEN build_execution_plan_for_flight_date_update(
                [nav.action_plan EXCEPT
                    !.value = Or(nav.dom_map.page_url,
                                 GetSeq(nav.action_plan.entities, "url"))],
                nav.dom_map)
       ELSE IF action \in {"history_back", "back", "go_back"}
       THEN build_execution_plan_for_history_back(nav.action_plan)
       ELSE IF action \in {"scroll", "scroll_page"}
       THEN build_execution_plan_for_scroll(nav.action_plan)
       ELSE RemoteOrHeuristic(nav, action)

MaxElements == 3

ElementIds == <<"e1", "e2", "e3", "e4", "e5", "e6", "e7">>

DomShape(tag, role, text, aria_label, score_hint, enabled) ==
    [NoElement EXCEPT !.tag = tag, !.role = role, !.text = text,
                      !.aria_label = aria_label, !.score_hint = score_hint,
                      !.enabled = enabled]

\* form fields, a suggestion and a button as a page may show them; the
\* extension's score_hint is any float, here 0, -0.2 or -0.3
DomShapes ==
    { DomShape("input", "", <<"from">>, <<>>, 0, TRUE),
      DomShape("input", "", <<"to">>, <<>>, 0, TRUE),
      DomShape("input", "", <<"from">>, <<>>, 0, FALSE),
      DomShape("input", "textbox", <<"where">>, <<"to", "city">>, 0, FALSE),
      DomShape("div", "combobox", <<"from">>, <<>>, -20, TRUE),
      DomShape("input", "", <<"from", "to", "destination">>, <<>>, -30, TRUE),
      DomShape("li", "option", <<"paris">>, <<>>, 0, TRUE),
      DomShape("button", "", <<"search">>, <<>>, 0, TRUE),
      DomShape("span", "", <<"rome">>, <<>>, 0, FALSE) }

WithIds(shapes) ==
    [i \in 1..Len(shapes) |-> [shapes[i] EXCEPT !.element_id = ElementIds[i]]]

DomMaps ==
    {[elements |-> WithIds(shapes), page_url |-> <<>>] :
        shapes \in UNION {[1..n -> DomShapes] : n \in 0..MaxElements}}

AXShape(role, name, disabled, focused) ==
    [NoAXElement EXCEPT !.role = role, !.name = name, !.disabled = disabled,
                        !.focused = focused]

AXShapes ==
    { AXShape("button", <<"search">>, FALSE, FALSE),
      AXShape("button", <<"search">>, TRUE, FALSE),
      AXShape("textbox", <<"from">>, FALSE, FALSE),
      AXShape("textbox", <<"to">>, FALSE, TRUE),
      AXShape("textbox", <<"from">>, TRUE, FALSE),
      AXShape("link", <<"paris">>, FALSE, FALSE) }

WithNodeIds(shapes) ==
    [i \in 1..Len(shapes) |-> [shapes[i] EXCEPT !.backend_node_id = i]]

AXTrees ==
    {[elements |-> WithNodeIds(shapes)] :
        shapes \in UNION {[1..n -> AXShapes] : n \in 0..MaxElements}}

NoNavRequest ==
    [kind |-> "none",
     action_plan |-> [action |-> "", target |-> <<>>, value |-> <<>>,
                      entities |-> EmptyDict],
     dom_map |-> [elements |-> <<>>, page_url |-> <<>>],
     ax_tree |-> [elements |-> <<>>],
     remote |-> NoRemote]

NavigationRequests ==
    {[NoNavRequest EXCEPT
         !.kind = "NavigationRequest",
         !.action_plan = [action |-> action, target |-> <<>>, value |-> <<>>,
                          entities |-> [origin |-> <<"paris">>,
                                        destination |-> <<"rome">>]],
         !.dom_map = dom_map] :
        action \in {"search_flights", "read"}, dom_map \in DomMaps}

AXNavigationRequests ==
    {[NoNavRequest EXCEPT
         !.kind = "AXNavigationRequest",
         !.action_plan = [action |-> action, target |-> target, value |-> <<>>,
                          entities |-> EmptyDict],
         !.ax_tree = ax_tree] :
        action \in {"click", "input", "read"}, target \in {<<>>, <<"search">>},
        ax_tree \in AXTrees}

MaxResults == 2

\* a search box, a submit button and two results, one of them dated
SearchShapes ==
    { DomShape("input", "", <<"search">>, <<>>, 0, TRUE),
      DomShape("button", "", <<"go">>, <<>>, 0, TRUE),
      DomShape("a", "", <<"cats", "1", "day", "ago">>, <<>>, 0, TRUE),
      DomShape("a", "", <<"cats">>, <<>>, 0, TRUE) }

\* no page, a flight-results page, the home page of the flight site and
\* another site
PageUrls_ ==
    { <<>>,
      <<"https", "://", "www.skyscanner.net">>
          \o PathOf(<< <<"i", "s", "t">>, <<"2", "5", "0", "1", "0", "1">>,
                       <<"2", "5", "0", "2", "0", "2">>, <<>> >>),
      <<"https", "://", "www.skyscanner.net", "/">>,
      <<"https", "://", "example.org">> }

PageMaps ==
    {[elements |-> WithIds(shapes), page_url |-> page_url] :
        shapes \in UNION {[1..n -> SearchShapes] : n \in 0..MaxResults},
        page_url \in PageUrls_}

PlanEntities ==
    { EmptyDict,
      [url |-> <<"https", "://", "example.org">>],
      [date |-> [year |-> 2026, month |-> 3, day |-> 4]],
      [query |-> <<"cats">>, latest |-> 1],
      [query |-> <<"cats">>, position |-> 2] }

\* the actions of the dispatch table and two it does not name
PlanActions ==
    {"open_site", "navigate", "back", "scroll", "update_flight_dates",
     "search_flights", "search_content", "click", "search_hotels", "read",
     "summarize"}

DispatchRequests ==
    {[NoNavRequest EXCEPT
         !.kind = "NavigationRequest",
         !.action_plan = [action |-> action, target |-> target, value |-> value,
                          entities |-> entities],
         !.dom_map = dom_map,
         !.remote = remote] :
        action \in PlanActions,
        target \in {<<>>, <<"youtube">>, <<"mystery">>},
        value \in {<<>>, <<"example.com">>},
        entities \in PlanEntities, dom_map \in PageMaps,
        remote \in {NoRemote} \cup RemotePlans}

\* a hotel form: destination and date fields, a calendar cell, a suggestion
\* and the buttons
StayShapes ==
    { DomShape("div", "combobox", <<"to">>, <<>>, -20, TRUE),
      DomShape("input", "", <<"date", "to">>, <<>>, 0, TRUE),
      DomShape("input", "", <<"date", "when", "to">>, <<>>, -50, TRUE),
      DomShape("input", "", <<"where">>, <<>>, 0, TRUE),
      DomShape("td", "gridcell", <<"4">>, <<"2026-03-04">>, 0, TRUE),
      DomShape("button", "", <<"date">>, <<>>, 0, TRUE),
      DomShape("button", "", <<"search">>, <<>>, 0, TRUE),
      DomShape("li", "option", <<"rome">>, <<>>, 0, TRUE) }

MaxFormElements == 5

\* a whole form: field, suggestion, date control, calendar cell and button
FormPageShapes ==
    { DomShape("input", "", <<"where">>, <<>>, 0, TRUE),
      DomShape("li", "option", <<"rome">>, <<>>, 0, TRUE),
      DomShape("button", "", <<"date">>, <<>>, 0, TRUE),
      DomShape("td", "gridcell", <<"4">>, <<"2026-03-04">>, 0, TRUE),
      DomShape("button", "", <<"search">>, <<>>, 0, TRUE) }

\* the sequences of n different shapes
RECURSIVE Arrangements(_, _)
Arrangements(shapes, n) ==
    IF n = 0 THEN {<<>>}
    ELSE UNION {{<<x>> \o rest : rest \in Arrangements(shapes \ {x}, n - 1)} :
                   x \in shapes}

\* longer pages, each shape once, in any order
FormPages ==
    UNION {Arrangements(FormPageShapes, n) : n \in (MaxElements + 1)..MaxFormElements}

StayRequests ==
    {[NoNavRequest EXCEPT
         !.kind = "NavigationRequest",
         !.action_plan = [action |-> "search_hotels", target |-> <<>>,
                          value |-> <<>>, entities |-> entities],
         !.dom_map = [elements |-> WithIds(shapes), page_url |-> <<>>]] :
        entities \in {[destination |-> <<"rome">>],
                      [destination |-> <<"rome">>,
                       date |-> [year |-> 2026, month |-> 3, day |-> 4]]},
        shapes \in UNION {[1..n -> StayShapes] : n \in 0..MaxElements} \cup FormPages}

AXField(role, name, description) ==
    [NoAXElement EXCEPT !.role = role, !.name = name, !.description = description]

\* a flight form as the accessibility tree shows it
FormShapes ==
    { AXField("combobox", <<"paris">>, <<"flying", "from">>),
      AXField("combobox", <<"to">>, <<>>),
      AXField("textbox", <<"from">>, <<"where", "to">>),
      AXField("gridcell", <<"4">>, <<>>),
      AXField("button", <<"depart">>, <<>>),
      AXField("button", <<"return">>, <<>>),
      AXField("button", <<"search">>, <<>>),
      AXField("button", <<"search", "flights", "march", "4">>, <<>>),
      AXField("link", <<"search", "flights",
                        "everywhere-explore-every-destination-you-can-think-of">>,
              <<>>) }

FormTrees ==
    {[elements |-> WithNodeIds(shapes)] :
        shapes \in UNION {[1..n -> FormShapes] : n \in 0..MaxElements}}

FormEntities ==
    { [origin |-> <<"paris">>, destination |-> <<"rome">>],
      [origin |-> <<"paris">>, destination |-> <<"rome">>,
       date |-> [year |-> 2026, month |-> 3, day |-> 4]],
      [destination |-> <<"rome">>,
       date_start |-> [year |-> 2026, month |-> 3, day |-> 4],
       date_end |-> [year |-> 2026, month |-> 3, day |-> 9]] }

AXFormRequests ==
    {[NoNavRequest EXCEPT
         !.kind = "AXNavigationRequest",
         !.action_plan = [action |-> action, target |-> <<>>, value |-> <<>>,
                          entities |-> entities],
         !.ax_tree = ax_tree] :
        action \in {"search_flights", "search_hotels"}, entities \in FormEntities,
        ax_tree \in FormTrees}

AXDispatchRequests ==
    {[NoNavRequest EXCEPT
         !.kind = "AXNavigationRequest",
         !.action_plan = [action |-> action, target |-> <<>>, value |-> value,
                          entities |-> entities],
         !.ax_tree = [elements |-> WithNodeIds(shapes)]] :
        action \in {"scroll", "back", "open_site", "navigate", "select_date",
                    "search_content", "summarize"},
        value \in {<<>>, <<"example.com">>},
        entities \in {EmptyDict, [url |-> <<"https", "://", "example.org">>],
                      [date |-> [year |-> 2026, month |-> 3, day |-> 4]]},
        shapes \in UNION {[1..n -> FormShapes] : n \in 0..1}}

NavIdle ==
    /\ nav_request = NoNavRequest
    /\ nav_result = NoNavResult

\* the request handed to the navigator
NavInputs ==
    /\ \/ nav_request \in NavigationRequests
       \/ nav_request \in AXNavigationRequests
       \/ nav_request \in DispatchRequests
       \/ nav_request \in StayRequests
       \/ nav_request \in AXFormRequests
       \/ nav_request \in AXDispatchRequests
    /\ nav_result = NoNavResult

\* navigator_agent.handle_navigation
handle_navigation ==
    /\ nav_request.kind = "NavigationRequest"
    /\ nav_result = NoNavResult
    /\ nav_result' = build_execution_plan(nav_request)
    /\ UNCHANGED nav_request

\* navigator_agent.handle_ax_navigation, what it computes
handle_ax_navigation_plan ==
    /\ nav_request.kind = "AXNavigationRequest"
    /\ nav_result = NoNavResult
    /\ nav_result' = build_ax_execution_plan(nav_request)
    /\ UNCHANGED nav_request

----------------------------------------------------------------------------
(* Accessibility-tree matchers called on their own *)

VARIABLES
    mt_call,    \* matcher: the function called and its arguments
    mt_found    \* matcher: the element returned (NoAXElement for None)

matchVars == <<mt_call, mt_found>>

NotCalled == [fn |-> "none"]

NotReturned == [returned |-> FALSE]

Found(el) == [returned |-> TRUE, el |-> el]

MatchIdle ==
    /\ mt_call = NotCalled
    /\ mt_found = NotReturned

\* elements of a page with a calendar, for the last-resort guess
GuessShapes ==
    { AXShape("button", <<"menu">>, FALSE, FALSE),
      AXShape("link", <<"paris">>, FALSE, TRUE),
      AXShape("button", <<"menu">>, TRUE, TRUE),
      AXShape("textbox", <<"from">>, FALSE, FALSE),
      AXShape("textbox", <<"to">>, FALSE, TRUE),
      AXShape("gridcell", <<"4">>, FALSE, FALSE),
      AXShape("gridcell", <<"9">>, FALSE, TRUE),
      AXShape("gridcell", <<"12">>, TRUE, FALSE) }

GuessTrees ==
    {[elements |-> WithNodeIds(shapes)] :
        shapes \in UNION {[1..n -> GuessShapes] : n \in 0..MaxElements}}

\* the intents of plans that name nothing on the page
GuessIntents ==
    {build_intent_from_action_plan(
         [action |-> action, target |-> <<>>, value |-> <<>>, entities |-> entities]) :
        action \in {"click", "input", "select_date", "search_flights", "hover"},
        entities \in {EmptyDict, [date |-> [year |-> 2026, month |-> 3, day |-> 4]]}}

\* buttons and links of a page with a search form
ButtonShapes ==
    { AXShape("button", <<"search">>, FALSE, FALSE),
      AXShape("button", <<"search">>, TRUE, FALSE),
      AXShape("link", <<"search">>, FALSE, FALSE),
      AXShape("button", <<"go", "find", "search">>, FALSE, FALSE),
      AXShape("button", <<"search", "flights", "march", "4">>, FALSE, FALSE),
      AXShape("link", <<"search", "flights",
                        "everywhere-explore-every-destination-you-can-think-of">>,
              FALSE, FALSE),
      AXShape("textbox", <<"search">>, FALSE, FALSE) }

ButtonTrees ==
    {[elements |-> WithNodeIds(shapes)] :
        shapes \in UNION {[1..n -> ButtonShapes] : n \in 0..MaxElements}}

\* find_action_button's default_keywords and the lists the navigator passes
default_keywords ==
    << <<"search">>, <<"submit">>, <<"apply">>, <<"done">>, <<"confirm">>,
       <<"go">>, <<"find">> >>

ActionKeywords ==
    { << <<"search">>, <<"find">>, <<"go">> >>,
      << <<"search">>, <<"go">>, <<"find">> >>,
      default_keywords }

MatchInputs ==
    /\ mt_call \in
          {[fn |-> "pick_best_guess", ax_tree |-> t, intent |-> i] :
              t \in GuessTrees, i \in GuessIntents}
          \cup {[fn |-> "find_action_button", ax_tree |-> t, action_keywords |-> k] :
                  t \in ButtonTrees, k \in ActionKeywords}
    /\ mt_found = NotReturned

BestGuessPicked ==
    /\ mt_call.fn = "pick_best_guess"
    /\ mt_found = NotReturned
    /\ mt_found' = Found(pick_best_guess(mt_call.ax_tree, mt_call.intent))
    /\ UNCHANGED mt_call

ActionButtonFound ==
    /\ mt_call.fn = "find_action_button"
    /\ mt_found = NotReturned
    /\ mt_found' = Found(find_action_button(mt_call.ax_tree.elements,
                                                mt_call.action_keywords))
    /\ UNCHANGED mt_call

----------------------------------------------------------------------------
(* ASIClient.navigate: the LLM navigator and its retry on the whole DOM *)

VARIABLES
    asi,                \* the client: is it configured, and its two DOMMAP_* flags
    asi_pc,             \* "idle", "call" (in _navigate_with_dom) or "done"
    asi_use_filter,     \* use_filter of the running _navigate_with_dom
    asi_fallback_used,  \* fallback_used of the running _navigate_with_dom
    asi_chats,          \* one entry per _chat call: was the DOM filtered
    asi_parsed,         \* the parsed reply of each _chat call
    asi_returned        \* what navigate returned

asiVars == <<asi, asi_pc, asi_use_filter, asi_fallback_used, asi_chats,
             asi_parsed, asi_returned>>

\* None
NoJson == [schema_version |-> "none"]

AsiClients ==
    [configured : BOOLEAN, dommap_filter_enabled : BOOLEAN,
     dommap_fallback_enabled : BOOLEAN]

\* confidence of a step that carries none (or one that is not a number)
NoConfidence == -1

\* what _extract_json makes of the replies of the LLM; confidences times 100
ParsedReplies ==
    { NoJson,
      [schema_version |-> "clarification_v1", reason |-> "no_candidates"],
      [schema_version |-> "clarification_v1", reason |-> "NO_CANDIDATES"],
      [schema_version |-> "clarification_v1", reason |-> "ambiguous"],
      [schema_version |-> "executionplan_v1", steps |-> <<>>],
      [schema_version |-> "executionplan_v1", steps |-> <<20, 40>>],
      [schema_version |-> "executionplan_v1", steps |-> <<90, 10>>],
      [schema_version |-> "executionplan_v1", steps |-> <<49>>],
      [schema_version |-> "executionplan_v1", steps |-> <<NoConfidence, 20>>],
      [schema_version |-> "executionplan_v1", steps |-> <<NoConfidence>>],
      [schema_version |-> "executionplan_v1", steps |-> <<95>>],
      [schema_version |-> "actionplan_v1"] }

\* str.lower() of a reason
Lower(reason) == IF reason = "NO_CANDIDATES" THEN "no_candidates" ELSE reason

RECURSIVE SumOf(_)
SumOf(numbers) == IF numbers = <<>> THEN 0 ELSE Head(numbers) + SumOf(Tail(numbers))

\* avg_conf < 0.5, over the steps that carry a number
MeanBelowHalf(steps) ==
    LET confidences == SelectSeq(steps, LAMBDA c : c # NoConfidence)
    IN confidences # <<>> /\ 2 * SumOf(confidences) < 100 * Len(confidences)

\* a client that asks for the whole DOM after every parsed reply
_should_retry_with_full_dom_Always(client, parsed) == parsed # NoJson

_should_retry_with_full_dom(client, parsed) ==
    IF ~client.dommap_fallback_enabled \/ parsed = NoJson THEN FALSE
    ELSE IF parsed.schema_version = "clarification_v1"
    THEN Lower(parsed.reason) = "no_candidates"
    ELSE IF parsed.schema_version = "executionplan_v1"
    THEN MeanBelowHalf(parsed.steps)
    ELSE FALSE

AsiIdle ==
    /\ asi = [configured |-> FALSE, dommap_filter_enabled |-> TRUE,
              dommap_fallback_enabled |-> TRUE]
    /\ asi_pc = "idle"
    /\ asi_use_filter = FALSE
    /\ asi_fallback_used = FALSE
    /\ asi_chats = <<>>
    /\ asi_parsed = <<>>
    /\ asi_returned = NoJson

AsiInputs ==
    /\ asi \in AsiClients
    /\ asi_pc = "idle"
    /\ asi_use_filter = FALSE
    /\ asi_fallback_used = FALSE
    /\ asi_chats = <<>>
    /\ asi_parsed = <<>>
    /\ asi_returned = NoJson

\* asi_client.py:327-334: navigate enters _navigate_with_dom
navigate ==
    /\ asi_pc = "idle"
    /\ asi_pc' = "call"
    /\ asi_use_filter' = asi.dommap_filter_enabled
    /\ asi_fallback_used' = FALSE
    /\ UNCHANGED <<asi, asi_chats, asi_parsed, asi_returned>>

\* the replies _chat can come back with: None without its keys
ChatReplies(client) == IF client.configured THEN ParsedReplies ELSE {NoJson}

\* asi_client.py:336-361: one activation of _navigate_with_dom; the value of
\* the inner activation is returned as it is
_navigate_with_dom ==
    /\ asi_pc = "call"
    /\ \E parsed \in ChatReplies(asi) :
          /\ asi_chats' = Append(asi_chats, [filtered |-> asi_use_filter])
          /\ asi_parsed' = Append(asi_parsed, parsed)
          /\ IF asi_use_filter /\ ~asi_fallback_used
                /\ _should_retry_with_full_dom(asi, parsed)
             THEN /\ asi_use_filter' = FALSE
                  /\ asi_fallback_used' = TRUE
                  /\ UNCHANGED <<asi_pc, asi_returned>>
             ELSE /\ asi_pc' = "done"
                  /\ asi_returned' = parsed
                  /\ UNCHANGED <<asi_use_filter, asi_fallback_used>>
    /\ UNCHANGED asi

----------------------------------------------------------------------------
(* Specifications *)

vars == <<interpVars, orchVars, apiVars, navVars, urlVars, matchVars, asiVars>>

\* api_server.interpreter_endpoint: one call of the interpreter
InterpreterEndpoint ==
    /\ result.kind = "none"
    /\ \E reply \in (IF is_configured THEN LLMReplies \cup AugmentedReplies
                     ELSE {NoReply}) :
          /\ llm_reply' = reply
          /\ result' = build_action_plan_from_transcript(msg, is_configured, reply)
    /\ llm_calls' = llm_calls + LLMCallsOf(is_configured)
    /\ UNCHANGED <<msg, is_configured, orchVars, apiVars, navVars, urlVars, matchVars, asiVars>>

NextInterp == InterpreterEndpoint

InterpInit ==
    InterpInputs /\ OrchIdle /\ ApiIdle /\ NavIdle /\ UrlIdle /\ MatchIdle /\ AsiIdle

SpecInterp == InterpInit /\ [][NextInterp]_vars

PipelineRequestArrives ==
    /\ \E r \in Requesters, trace \in TraceIds \cup {""} :
          handle_pipeline_request(r.sender, trace, r.ax_tree, r.transcript)
    /\ UNCHANGED <<interpVars, apiVars, navVars, urlVars, matchVars, asiVars>>

ActionPlanArrives ==
    /\ \E m \in Inbox("orchestrator", "ActionPlan") : handle_action_plan(m)
    /\ UNCHANGED <<interpVars, apiVars, navVars, urlVars, matchVars, asiVars>>

ExecutionPlanArrives ==
    /\ \E m \in Inbox("orchestrator", "AXExecutionPlan") : handle_execution_plan(m)
    /\ UNCHANGED <<interpVars, apiVars, navVars, urlVars, matchVars, asiVars>>

ClarificationArrives ==
    /\ \E m \in Inbox("orchestrator", "ClarificationRequest") : handle_clarification(m)
    /\ UNCHANGED <<interpVars, apiVars, navVars, urlVars, matchVars, asiVars>>

TranscriptArrives ==
    /\ \E m \in Inbox("interpreter", "TranscriptMessage") :
          \E reply \in (IF is_configured THEN PipelineReplies ELSE {NoReply}) :
              handle_transcript(m, reply)
    /\ UNCHANGED <<interpVars, apiVars, navVars, urlVars, matchVars, asiVars>>

NavigationArrives ==
    /\ \E m \in Inbox("navigator", "AXNavigationRequest") :
          \E kind \in {"AXExecutionPlan", "ClarificationRequest"} :
              handle_ax_navigation(m, kind)
    /\ UNCHANGED <<interpVars, apiVars, navVars, urlVars, matchVars, asiVars>>

TimePasses ==
    /\ \E d \in TickSteps : Tick(d)
    /\ UNCHANGED <<interpVars, apiVars, navVars, urlVars, matchVars, asiVars>>

OrchInit ==
    /\ OrchIdle
    /\ ApiIdle
    /\ NavIdle
    /\ UrlIdle
    /\ MatchIdle
    /\ AsiIdle
    /\ msg = NoMsg
    /\ is_configured \in BOOLEAN
    /\ result = NoResult
    /\ llm_calls = 0
    /\ llm_reply = NoReply

NextOrch ==
    \/ PipelineRequestArrives
    \/ ActionPlanArrives
    \/ ExecutionPlanArrives
    \/ ClarificationArrives
    \/ TranscriptArrives
    \/ NavigationArrives
    \/ TimePasses

SpecOrch == OrchInit /\ [][NextOrch]_vars

\* the Bureau hands every message sent to a registered agent to its handler
SpecOrchLive ==
    /\ SpecOrch
    /\ WF_vars(ActionPlanArrives)
    /\ WF_vars(ExecutionPlanArrives)
    /\ WF_vars(ClarificationArrives)
    /\ WF_vars(TranscriptArrives)
    /\ WF_vars(NavigationArrives)

ApiRequestArrives ==
    /\ \E route \in Routes, ip \in ClientIps, origin \in Origins :
          \E x_api_key \in KeysOf(ip), payload \in Payloads(route) :
              HttpRequest(route, ip, x_api_key, origin, payload)
    /\ UNCHANGED <<wall_clock, interpVars, orchVars, navVars, urlVars, matchVars, asiVars>>

\* the extension reporting execution results, and nothing else
FeedbackArrives ==
    /\ \E ip \in ClientIps : \E x_api_key \in KeysOf(ip) :
          HttpRequest("/api/execution/result", ip, x_api_key, "", "body")
    /\ UNCHANGED <<wall_clock, interpVars, orchVars, navVars, urlVars, matchVars, asiVars>>

ClockTicks ==
    /\ \E d \in ClockSteps : ClockAdvances(d)
    /\ UNCHANGED <<interpVars, orchVars, navVars, urlVars, matchVars, asiVars>>

ApiInit ==
    ApiIdle /\ InterpIdle /\ OrchIdle /\ NavIdle /\ UrlIdle /\ MatchIdle /\ AsiIdle

NextApi == ApiRequestArrives

NextAuth == FeedbackArrives \/ ClockTicks

SpecAuth == ApiInit /\ [][NextAuth]_vars

SpecApi == ApiInit /\ [][NextApi]_vars

NavigationArrivesDom ==
    /\ handle_navigation
    /\ UNCHANGED <<interpVars, orchVars, apiVars, urlVars, matchVars, asiVars>>

NavigationArrivesAX ==
    /\ handle_ax_navigation_plan
    /\ UNCHANGED <<interpVars, orchVars, apiVars, urlVars, matchVars, asiVars>>

NextNav == NavigationArrivesDom \/ NavigationArrivesAX

NavInit ==
    NavInputs /\ InterpIdle /\ OrchIdle /\ ApiIdle /\ UrlIdle /\ MatchIdle /\ AsiIdle

SpecNav == NavInit /\ [][NextNav]_vars

FlightDatesRewritten ==
    /\ FirstRewrite
    /\ UNCHANGED <<interpVars, orchVars, apiVars, navVars, matchVars, asiVars>>

FlightDatesRewrittenAgain ==
    /\ SecondRewrite
    /\ UNCHANGED <<interpVars, orchVars, apiVars, navVars, matchVars, asiVars>>

NextUrl == FlightDatesRewritten \/ FlightDatesRewrittenAgain

UrlInit ==
    UrlInputs /\ InterpIdle /\ OrchIdle /\ ApiIdle /\ NavIdle /\ MatchIdle /\ AsiIdle

SpecUrl == UrlInit /\ [][NextUrl]_vars

GuessPicked ==
    /\ BestGuessPicked
    /\ UNCHANGED <<interpVars, orchVars, apiVars, navVars, urlVars, asiVars>>

ButtonFound ==
    /\ ActionButtonFound
    /\ UNCHANGED <<interpVars, orchVars, apiVars, navVars, urlVars, asiVars>>

NextMatch == GuessPicked \/ ButtonFound

MatchInit ==
    MatchInputs /\ InterpIdle /\ OrchIdle /\ ApiIdle /\ NavIdle /\ UrlIdle /\ AsiIdle

SpecMatch == MatchInit /\ [][NextMatch]_vars

NavigateCalled ==
    /\ navigate
    /\ UNCHANGED <<interpVars, orchVars, apiVars, navVars, urlVars, matchVars>>

ChatAnswered ==
    /\ _navigate_with_dom
    /\ UNCHANGED <<interpVars, orchVars, apiVars, navVars, urlVars, matchVars>>

NextAsi == NavigateCalled \/ ChatAnswered

AsiInit ==
    AsiInputs /\ InterpIdle /\ OrchIdle /\ ApiIdle /\ NavIdle /\ UrlIdle /\ MatchIdle

\* navigate is awaited: the coroutine runs to its return
SpecAsi == AsiInit /\ [][NextAsi]_vars /\ WF_vars(NextAsi)

----------------------------------------------------------------------------
(* Claims about the orchestrator pipeline *)

\* the request last accepted for trace_id has had exactly one result sent,
\* to its sender, and its session is gone
RequestAnswered(trace_id) ==
    /\ Has(recorded, trace_id)
    /\ LET r == recorded[trace_id]
           sent == {i \in 1..Len(outbox) : outbox[i].serial = r.serial}
       IN /\ Cardinality(sent) = 1
          /\ \A i \in sent : outbox[i].to = r.sender /\ outbox[i].trace_id = trace_id
          /\ ~Has(_pipeline_sessions, trace_id)

(* C1: every accepted PipelineRequest is eventually answered: its sender   *)
(* receives exactly one terminal result for the request's trace id and     *)
(* the session is gone, whatever the interpreter and the navigator return  *)
(* (stated for runs in which less than the session TTL has passed).        *)
C1_EveryRequestAnswered ==
    \A t \in TraceIds \cup {UuidPool[i] : i \in 1..Len(UuidPool)} :
        Has(recorded, t) ~> (RequestAnswered(t) \/ now > 0)

TerminalInbox ==
    Inbox("orchestrator", "AXExecutionPlan")
        \cup Inbox("orchestrator", "ClarificationRequest")

\* a step that handles the terminal message m
Handles(m) == inbox' = Receive(inbox, m)

TerminalStepPopsAndForwards ==
    \A m \in TerminalInbox :
        Handles(m) =>
            LET live == _prune_sessions(_pipeline_sessions, now)
                t == m.trace_id
            IN IF Has(live, t)
               THEN /\ ~Has(_pipeline_sessions', t)
                    /\ Len(outbox') = Len(outbox) + 1
                    /\ outbox'[Len(outbox')].to = live[t].sender
                    /\ outbox'[Len(outbox')].trace_id = t
               ELSE /\ outbox' = outbox
                    /\ _pipeline_sessions' = live

NoSessionAnsweredTwice ==
    \A i, j \in 1..Len(outbox) : outbox[i].serial = outbox[j].serial => i = j

DeliveredToRecordedSender ==
    Len(outbox') > Len(outbox) =>
        LET d == outbox'[Len(outbox')]
        IN Has(recorded, d.trace_id) /\ d.to = recorded[d.trace_id].sender

NavigationPairsStoredSnapshot ==
    \A m \in {x \in BagToSet(inbox') : x.type = "AXNavigationRequest"} :
        CopiesIn(m, inbox') > CopiesIn(m, inbox) =>
            /\ Has(recorded, m.trace_id)
            /\ m.ax_tree = recorded[m.trace_id].ax_tree

(* C3: however the handling of concurrent requests interleaves, a result   *)
(* for trace id t is sent only to the sender recorded by the               *)
(* PipelineRequest for t, and the snapshot forwarded to the navigator      *)
(* with the ActionPlan for t is the one that request stored for t.         *)
C3_NoCrossTalk ==
    [][DeliveredToRecordedSender /\ NavigationPairsStoredSnapshot]_vars

\* two requests with distinct trace ids and senders were in flight together
\* and the later one was answered first
C3_Witness ==
    /\ Len(outbox) = 2
    /\ outbox[1].serial = 2 /\ outbox[2].serial = 1
    /\ outbox[1].trace_id # outbox[2].trace_id
    /\ outbox[1].to # outbox[2].to
----------------------------------------------------------------------------
(* Claims about the interpreter *)

Returned == result.kind # "none"

UsedHeuristics == RemoteTag(is_configured, llm_reply) = ""

\* the classifiers before the flight branch (scroll, click-nth) do not fire
ReachesFlightBranch(m) ==
    LET t == transcript_for_processing(m)
    IN /\ flight_intent(m)
       /\ ~HasWord(t, "scroll")
       /\ ~((HasWord(t, "click") \/ HasWord(t, "open"))
            /\ Has(HeuristicEntities(m), "position"))

MissingFlightFields(m) ==
    LET e == HeuristicEntities(m)
    IN {f \in {"origin", "destination"} : ~Has(e, f)}
       \cup (IF \E k \in {"date", "date_start", "date_end"} : Has(e, k)
             THEN {} ELSE {"date"})

\* the field an option label names
OptionField(label) ==
    CASE label = "origin city" -> "origin"
      [] label = "destination city" -> "destination"
      [] OTHER -> label

(* C6: on the heuristic path, a flight-intent transcript that lacks        *)
(* origin, destination or date is answered with a ClarificationRequest     *)
(* whose options name exactly the missing fields, never an ActionPlan.     *)
C6_MissingFlightFieldClarified ==
    (Returned /\ UsedHeuristics /\ ReachesFlightBranch(msg)
        /\ MissingFlightFields(msg) # {})
    => /\ result.kind = "ClarificationRequest"
       /\ {OptionField(result.options[i]) : i \in 1..Len(result.options)}
              = MissingFlightFields(msg)

IsScrollCommand(m) == HasWord(m.transcript, "scroll")

IsHistoryBack(m) == HasPair(m.transcript, "go", "back") /\ ~IsScrollCommand(m)

(* C7: a scroll command or a history-back phrase returns an ActionPlan     *)
(* without any LLM call, even with a provider configured, with confidence  *)
(* 0.75 for scroll and 0.9 for history back.                               *)
C7_FastPathSkipsLLM ==
    (Returned /\ (IsScrollCommand(msg) \/ IsHistoryBack(msg)))
    => /\ result.kind = "ActionPlan"
       /\ llm_calls = 0
       /\ result.action = (IF IsScrollCommand(msg) THEN "scroll" ELSE "history_back")
       /\ result.confidence = (IF IsScrollCommand(msg) THEN 75 ELSE 90)

\* the reply decodes into the object its schema_version names
WellFormedReply ==
    LET d == interpret_transcript(llm_reply).dict
        tag == RemoteTag(is_configured, llm_reply)
    IN \/ tag = "actionplan_v1" /\ Decodes(d, {"id", "action"})
       \/ tag = "clarification_v1" /\ Decodes(d, {"id", "question"})

(* C8: build_action_plan_from_transcript returns an ActionPlan or a        *)
(* ClarificationRequest and never raises, for every LLM outcome; every     *)
(* outcome other than a well-formed plan or clarification gives the        *)
(* heuristic result.                                                       *)
C8_NeverRaises ==
    Returned
    => /\ result.kind \in {"ActionPlan", "ClarificationRequest"}
       /\ ~WellFormedReply => result = Heuristics(msg)
----------------------------------------------------------------------------
(* Claims about API-key verification *)

\* the request went through verify_api_key
Verifies(r) ==
    /\ r.route \in Routes
    /\ DependsOnKey(r.route)
    /\ (r.origin = "" \/ is_origin_allowed(r.origin))

(* C4, as stated: after FAILED_LIMIT failed verifications from one ip      *)
(* inside the 60-second window, however they are interleaved with          *)
(* successful ones, every later verification from that ip is rejected with *)
(* 401 until the block expires.                                            *)
C4_BlockedAfterLimitInWindow ==
    (Verifies(response) /\ wall_clock <= windowed[response.ip].blocked_until)
    => response.status = 401 /\ ~response.handler_ran

(* C4, amended: after FAILED_LIMIT failed verifications from one ip inside *)
(* the 60-second window with no successful verification from that ip       *)
(* between them, every later verification from that ip, the valid key      *)
(* included, is rejected with 401 until BLOCK_DURATION_SECONDS after the   *)
(* last of those failures.                                                 *)
C4_BlockedAfterConsecutiveFailures ==
    (Verifies(response) /\ wall_clock <= consecutive[response.ip].blocked_until)
    => response.status = 401 /\ ~response.handler_ran

\* the valid key is refused in the last second of a block
C4_Witness ==
    /\ Verifies(response)
    /\ response.x_api_key = expected_key
    /\ response.status = 401
    /\ wall_clock = BLOCK_DURATION_SECONDS
    /\ consecutive[response.ip].blocked_until = wall_clock

KeyAccepted(r) == strip(r.x_api_key) = expected_key

OriginPasses(r) == r.origin = "" \/ is_origin_allowed(r.origin)

IpBlocked(r) == wall_clock <= consecutive[r.ip].blocked_until

IsApiRoute(r) == r.route \in Routes /\ r.route # "/health"

\* what the handler answers once it runs
StatusOf(payload) ==
    CASE payload = "no_audio" -> 400
      [] payload \in {"unreadable_audio", "llm_undecodable"} -> 500
      [] OTHER -> 200

----------------------------------------------------------------------------
(* Claims about the navigator's plans *)

StepsNamed(step_id) ==
    {i \in 1..Len(nav_result.steps) : nav_result.steps[i].step_id = step_id}

(* C9: in every ExecutionPlan of the flight-search form filler the origin  *)
(* input step and the destination input step target different elements.    *)
C9_OriginAndDestinationDiffer ==
    (nav_request.kind = "NavigationRequest" /\ nav_result.kind = "ExecutionPlan")
    => \A i \in StepsNamed("s_origin"), j \in StepsNamed("s_destination") :
          nav_result.steps[i].element_id # nav_result.steps[j].element_id

\* the step's element is one the snapshot marks disabled (not enabled)
TargetsDisabled(step) ==
    \/ \E i \in 1..Len(nav_request.dom_map.elements) :
          /\ nav_request.dom_map.elements[i].element_id = step.element_id
          /\ ~nav_request.dom_map.elements[i].enabled
    \/ \E i \in 1..Len(nav_request.ax_tree.elements) :
          /\ nav_request.ax_tree.elements[i].backend_node_id = step.element_id
          /\ nav_request.ax_tree.elements[i].disabled

(* C10: unless the action is read or check, no step of a plan built by the *)
(* accessibility-tree matcher or by the DOM matcher targets an element     *)
(* that the snapshot marks disabled.                                       *)
C10_NoDisabledTarget ==
    nav_request.action_plan.action \notin {"read", "check"}
    => \A i \in 1..Len(nav_result.steps) : ~TargetsDisabled(nav_result.steps[i])

\* the accessibility-tree half of C10 on its own
AXPlansAvoidDisabled ==
    (nav_request.kind = "AXNavigationRequest"
        /\ nav_request.action_plan.action \notin {"read", "check"})
    => \A i \in 1..Len(nav_result.steps) : ~TargetsDisabled(nav_result.steps[i])

\* the components of `after` against those of `before`: only the path may
\* differ, and in the path only the date segments, which hold `first` and
\* `second`
OnlyDatesChanged(before, after, parts, new_parts, indexes, first, second) ==
    /\ after.scheme = before.scheme
    /\ after.netloc = before.netloc
    /\ after.query = before.query
    /\ after.fragment = before.fragment
    /\ Len(new_parts) = Len(parts)
    /\ \A i \in 1..Len(parts) :
          new_parts[i] = IF i = indexes[1] THEN first
                         ELSE IF i = indexes[2] THEN second
                         ELSE parts[i]

RewriteOfTwoDates(before, after, parts, indexes, outbound, inbound) ==
    OnlyDatesChanged(before, after, parts, split(after.path), indexes,
                     outbound,
                     IF inbound = <<>> THEN parts[indexes[2]] ELSE inbound)

TwoDateSegments ==
    /\ rw_args.page_url # <<>>
    /\ Len(date_indexes(split(urlsplit(rw_args.page_url).path))) = 2

(* C11: for a URL whose path has two 6-digit segments, the rewrite with     *)
(* (out, None) changes only the first of them and leaves the scheme, host,  *)
(* other path segments, query and fragment as they were; the rewrite with   *)
(* (out, back) sets both; and rewriting the result again with the same      *)
(* arguments returns the result unchanged.                                  *)
C11_RewriteTwoDateSegments ==
    TwoDateSegments =>
        /\ rw_calls >= 1 =>
              RewriteOfTwoDates(
                  urlsplit(rw_args.page_url), urlsplit(rw_once),
                  split(urlsplit(rw_args.page_url).path),
                  date_indexes(split(urlsplit(rw_args.page_url).path)),
                  format_compact_date_for_url(rw_args.outbound),
                  format_compact_date_for_url(rw_args.inbound))
        /\ rw_calls = 2 => rw_twice = rw_once

C11_Witness ==
    /\ TwoDateSegments
    /\ rw_calls = 2
    /\ rw_args.inbound = NoDate
    /\ urlsplit(rw_args.page_url).query # <<>>
    /\ rw_once # rw_args.page_url
    /\ rw_twice = rw_once

\* the action strings the branches of build_execution_plan name
DomTableActions ==
    {"update_flight_dates", "update_dates", "search_flights", "flight_search",
     "travel_flights", "scroll", "scroll_page", "history_back", "back", "go_back",
     "open_site", "navigate", "search_content", "search", "search_site",
     "click_result", "click_item", "click", "search_hotels", "search_stays",
     "search_travel"}

\* the action strings the branches of build_ax_execution_plan name
AXTableActions ==
    {"scroll", "scroll_page", "scroll_down", "scroll_up", "history_back", "back",
     "go_back", "open_site", "navigate", "search_flights", "flight_search",
     "search_hotels", "search_stays", "search_travel", "search_content", "search",
     "search_site", "click_result", "click_item", "click", "select_date",
     "pick_date", "input", "type", "fill"}

Planned == nav_result # NoNavResult

UnknownAction ==
    \/ /\ nav_request.kind = "NavigationRequest"
       /\ nav_request.action_plan.action \notin DomTableActions
    \/ /\ nav_request.kind = "AXNavigationRequest"
       /\ nav_request.action_plan.action \notin AXTableActions

(* C12: for an action string that matches no branch of the dispatch table   *)
(* the planner, DOM and accessibility tree alike, returns a                 *)
(* ClarificationRequest with reason unsupported_action and never a plan.    *)
C12_UnknownActionIsUnsupported ==
    (Planned /\ UnknownAction)
    => /\ nav_result.kind = "ClarificationRequest"
       /\ nav_result.reason = "unsupported_action"

(* C13: for navigate/open_site the planner returns a plan of exactly one    *)
(* navigate step with a non-empty URL, or a ClarificationRequest with       *)
(* reason missing_site; never a navigate step without a URL.                *)
C13_NavigateHasUrlOrMissingSite ==
    (Planned /\ nav_request.action_plan.action \in {"open_site", "navigate"})
    => \/ /\ nav_result.kind = "ExecutionPlan"
          /\ Len(nav_result.steps) = 1
          /\ nav_result.steps[1].action_type = "navigate"
          /\ nav_result.steps[1].value # <<>>
       \/ /\ nav_result.kind = "ClarificationRequest"
          /\ nav_result.reason = "missing_site"

ClarificationReasons ==
    {"missing_query", "missing_entities", "ambiguous_intent", "no_candidates",
     "low_confidence_target", "unsupported_action", "missing_site",
     "missing_page_url", "missing_date", "missing_date_in_url"}

(* C14: every ClarificationRequest of the interpreter's heuristics or of a  *)
(* heuristic plan builder has a reason among the ten values of the enum.    *)
C14_ReasonInEnum ==
    /\ (result.kind = "ClarificationRequest" /\ llm_calls = 0)
       => result.reason \in ClarificationReasons
    /\ (nav_result.kind = "ClarificationRequest" /\ nav_request.remote = NoRemote)
       => nav_result.reason \in ClarificationReasons

UnboundId == IF nav_request.kind = "AXNavigationRequest" THEN 0 ELSE ""

\* the steps of the plan that act on an element
ElementSteps ==
    {i \in 1..Len(nav_result.steps) : nav_result.steps[i].element_id # UnboundId}

NoSharedElement ==
    \A i, j \in ElementSteps :
        i # j => nav_result.steps[i].element_id # nav_result.steps[j].element_id

StayPlan ==
    /\ nav_request.kind = "NavigationRequest"
    /\ nav_request.remote = NoRemote
    /\ nav_request.action_plan.action \in {"search_hotels", "search_stays",
                                           "search_travel"}
    /\ nav_result.kind = "ExecutionPlan"

AXFormPlan ==
    /\ nav_request.kind = "AXNavigationRequest"
    /\ nav_request.action_plan.action \in {"search_flights", "flight_search",
                                           "search_hotels", "search_stays",
                                           "search_travel"}
    /\ nav_result.kind = "ExecutionPlan"

(* C19: in a plan of the destination-only form builder (DOM) and in the     *)
(* steps of the accessibility-tree search-form builder no two steps target  *)
(* the same element.                                                        *)
C19_StepsBindDifferentElements ==
    (StayPlan \/ AXFormPlan) => NoSharedElement

(* C15: every ActionPlan the interpreter returns, on the heuristic path and *)
(* on the LLM path after entity augmentation, has entities that is a map    *)
(* (possibly empty) and never null.                                         *)
C15_EntitiesNeverNull ==
    result.kind = "ActionPlan" => ~result.entities_none

ContainsKnownSite(t) == \E i \in 1..Len(known_sites) : HasWord(t, known_sites[i])

\* none of the verbs the heuristics look for
NoExplicitVerb(t) ==
    /\ ~HasAny(t, {"open", "navigate", "go", "scroll", "click", "search", "find",
                   "watch", "play", "show", "look"})

\* a classifier that comes before site navigation matches without a verb
EarlierIntent(m) ==
    LET t == transcript_for_processing(m)
        entities == HeuristicEntities(m)
        has_date == \E k \in {"date", "date_start", "date_end"} : Has(entities, k)
    IN \/ flight_intent(m)
       \/ /\ Has(entities, "destination")
          /\ (has_date \/ HasAny(t, {"hotel", "hotels", "stay", "booking",
                                     "bookings.com"}))
       \/ GetSeq(entities, "query") # <<>>
       \/ video_intent(t)

SiteMentionOnly ==
    /\ Returned /\ UsedHeuristics
    /\ ContainsKnownSite(transcript_for_processing(msg))
    /\ NoExplicitVerb(transcript_for_processing(msg))

----------------------------------------------------------------------------
(* Claims about the orchestrator's handlers *)

Expired(session) == now - session.created_at > _SESSION_TTL_SECONDS

\* the session a message for trace id t is matched with, if any
HasLiveSession(t) ==
    Has(_pipeline_sessions, t) /\ ~Expired(_pipeline_sessions[t])

NavigationRequestsIn(box) ==
    {x \in BagToSet(box) : x.type = "AXNavigationRequest" /\ x.dst = "navigator"}

\* the step takes the ActionPlan m out of the orchestrator's mailbox
HandlesActionPlan(m) == CopiesIn(m, inbox') < CopiesIn(m, inbox)

\* exactly one navigation request is added, pairing m with the stored snapshot
ForwardsWithSnapshot(m) ==
    LET request == Message("AXNavigationRequest", "navigator", "orchestrator",
                           m.trace_id, <<>>, m.action,
                           _pipeline_sessions[m.trace_id].ax_tree)
    IN /\ CopiesIn(request, inbox') = CopiesIn(request, inbox) + 1
       /\ \A x \in NavigationRequestsIn(inbox') \ {request} :
              CopiesIn(x, inbox') = CopiesIn(x, inbox)

ForwardsNothing ==
    \A x \in NavigationRequestsIn(inbox') : CopiesIn(x, inbox') = CopiesIn(x, inbox)

KeepsLiveSessions ==
    /\ DOMAIN _pipeline_sessions' \subseteq DOMAIN _pipeline_sessions
    /\ \A t \in DOMAIN _pipeline_sessions :
          ~Expired(_pipeline_sessions[t])
          => /\ Has(_pipeline_sessions', t)
             /\ _pipeline_sessions'[t] = _pipeline_sessions[t]

ActionPlanStep ==
    \A m \in Inbox("orchestrator", "ActionPlan") :
        HandlesActionPlan(m)
        => /\ IF HasLiveSession(m.trace_id)
              THEN ForwardsWithSnapshot(m) ELSE ForwardsNothing
           /\ raised' = raised
           /\ KeepsLiveSessions

OrchestratorInbox == {m \in BagToSet(inbox) : m.dst = "orchestrator"}

Taken(m) == CopiesIn(m, inbox') < CopiesIn(m, inbox)

\* one of the four handlers runs: a PipelineRequest is accepted or a message
\* leaves the orchestrator's mailbox
OrchestratorHandlerRuns ==
    accepted' # accepted \/ \E m \in OrchestratorInbox : Taken(m)

NoExpiredSessionLeft ==
    \A t \in DOMAIN _pipeline_sessions' :
        ~(now' - _pipeline_sessions'[t].created_at > _SESSION_TTL_SECONDS)

\* the handler itself pops or replaces the session of trace id t
Consumed(t) ==
    \/ \E m \in OrchestratorInbox :
          /\ Taken(m) /\ m.trace_id = t
          /\ m.type \in {"AXExecutionPlan", "ClarificationRequest"}
    \/ accepted' # accepted /\ recorded'[t].serial = accepted'

SessionAtTTLKept ==
    \A t \in DOMAIN _pipeline_sessions :
        (now - _pipeline_sessions[t].created_at = _SESSION_TTL_SECONDS
         /\ ~Consumed(t))
        => /\ Has(_pipeline_sessions', t)
           /\ _pipeline_sessions'[t] = _pipeline_sessions[t]

PrunedMeansUnknown ==
    \A m \in OrchestratorInbox :
        (/\ Taken(m)
         /\ Has(_pipeline_sessions, m.trace_id)
         /\ Expired(_pipeline_sessions[m.trace_id]))
        => /\ ~Has(_pipeline_sessions', m.trace_id)
           /\ outbox' = outbox
           /\ ForwardsNothing
           /\ raised' = raised

(* C18: each of the four orchestrator handlers prunes first: after a        *)
(* handler has run at time now the session map holds no session with        *)
(* now - created_at > TTL, a session whose age is exactly the TTL is kept,  *)
(* and a message for a session pruned this way is handled as a message for  *)
(* an unknown trace id (nothing forwarded, nothing delivered).              *)
C18_HandlersPruneFirst ==
    [][OrchestratorHandlerRuns
       => NoExpiredSessionLeft /\ SessionAtTTLKept /\ PrunedMeansUnknown]_vars

C18_Witness ==
    /\ now = _SESSION_TTL_SECONDS
    /\ \E t, u \in DOMAIN _pipeline_sessions :
          /\ _pipeline_sessions[t].created_at = 0
          /\ _pipeline_sessions[u].created_at = now

----------------------------------------------------------------------------
(* The priority order of the interpreter's classifiers *)

ScrollMatches(m) == HasWord(transcript_for_processing(m), "scroll")

ClickNthMatches(m) ==
    /\ HasAny(transcript_for_processing(m), {"click", "open"})
    /\ Has(HeuristicEntities(m), "position")

TravelMatches(m) ==
    /\ Has(HeuristicEntities(m), "destination")
    /\ \/ HasAny(transcript_for_processing(m),
                 {"hotel", "hotels", "stay", "booking", "bookings.com"})
       \/ \E k \in {"date", "date_start", "date_end"} : Has(HeuristicEntities(m), k)

ContentMatches(m) ==
    \/ search_signal(transcript_for_processing(m))
    \/ GetSeq(HeuristicEntities(m), "query") # <<>>
    \/ video_intent(transcript_for_processing(m))

SiteMatches(m) ==
    Has(HeuristicEntities(m), "site") \/ Has(HeuristicEntities(m), "url")

\* the classifiers in their order: scroll, click-nth-result, flight,
\* hotel/travel, content search, site/URL navigation; 7 when none matches
FirstMatch(m) ==
    IF ScrollMatches(m) THEN 1
    ELSE IF ClickNthMatches(m) THEN 2
    ELSE IF flight_intent(m) THEN 3
    ELSE IF TravelMatches(m) THEN 4
    ELSE IF ContentMatches(m) THEN 5
    ELSE IF SiteMatches(m) THEN 6
    ELSE 7

\* the classifier a result comes from, by what only that classifier builds
BuiltBy(r) ==
    IF r.kind = "ActionPlan"
    THEN CASE r.action = "scroll" -> 1
           [] r.action = "click_result" -> 2
           [] r.action = "search_flights" -> 3
           [] r.action = "search_hotels" -> 4
           [] r.action = "search_content" -> 5
           [] r.action = "open_site" -> 6
           [] OTHER -> 0
    ELSE CASE r.reason = "missing_entities" -> 3
           [] r.reason = "missing_query" -> 5
           [] r.reason = "ambiguous_intent" -> 7
           [] OTHER -> 0

(* C20: the interpreter's heuristic result is the one built by the first    *)
(* classifier whose condition holds, in the order scroll, click-nth-result, *)
(* flight, hotel/travel, content search, site/URL navigation, and otherwise *)
(* the ambiguous_intent clarification; a later classifier never determines  *)
(* the result when an earlier one matches.                                  *)
C20_FirstMatchingClassifierWins ==
    (Returned /\ UsedHeuristics) => BuiltBy(result) = FirstMatch(msg)

C20_Witness ==
    /\ Returned /\ UsedHeuristics
    /\ ~ScrollMatches(msg)
    /\ ClickNthMatches(msg) /\ flight_intent(msg) /\ ContentMatches(msg)
    /\ SiteMatches(msg)
    /\ result.action = "click_result"

----------------------------------------------------------------------------
(* Claims about the plan builders *)

StepIds(steps) == {steps[i].step_id : i \in 1..Len(steps)}

\* the place of a step in the destination form: field, suggestion, date, submit
StepRank(step_id) ==
    CASE step_id = "s_destination" -> 1
      [] step_id = "s_destination_option" -> 2
      [] step_id = "s_date_open" -> 3
      [] step_id = "s_date_pick" -> 4
      [] step_id = "s_date_input" -> 4
      [] step_id = "s_search" -> 5
      [] OTHER -> 0

InFormOrder(steps) ==
    /\ steps # <<>>
    /\ steps[1].step_id = "s_destination"
    /\ \A i \in 1..Len(steps) : StepRank(steps[i].step_id) # 0
    /\ \A i, j \in 1..Len(steps) :
          i < j => StepRank(steps[i].step_id) < StepRank(steps[j].step_id)
    /\ \A i \in 1..Len(steps) :
          steps[i].step_id = "s_destination_option" => steps[i].confidence >= 50
    /\ "s_date_open" \in StepIds(steps) => "s_date_pick" \in StepIds(steps)

(* C21: in every plan of the destination-only form builder the steps come   *)
(* in this order: the destination input first, then the destination-option  *)
(* click (only with a score of at least 0.5), then the date steps (the      *)
(* click that opens the date control before the click on the date cell, or  *)
(* a single date input), then the submit click last.                        *)
C21_DestinationStepsInOrder == StayPlan => InFormOrder(nav_result.steps)

C21_Witness ==
    /\ StayPlan
    /\ Len(nav_result.steps) = 5
    /\ nav_result.steps[3].step_id = "s_date_open"
    /\ nav_result.steps[5].step_id = "s_search"

\* a DOM request for the flight-date update builder
DateUpdateRequest ==
    /\ Planned
    /\ nav_request.kind = "NavigationRequest"
    /\ nav_request.action_plan.action \in {"update_flight_dates", "update_dates"}

\* the base URL: the page's, else the plan's value, else entities.url
BaseUrl ==
    IF nav_request.dom_map.page_url # <<>> THEN nav_request.dom_map.page_url
    ELSE IF nav_request.action_plan.value # <<>> THEN nav_request.action_plan.value
    ELSE GetSeq(nav_request.action_plan.entities, "url")

OutboundDate ==
    IF GetDate(nav_request.action_plan.entities, "date_start") # NoDate
    THEN GetDate(nav_request.action_plan.entities, "date_start")
    ELSE GetDate(nav_request.action_plan.entities, "date")

\* six digits in a row somewhere in the path of the URL
PathHoldsDateRun(url) ==
    LET path == urlsplit(url).path
    IN \E i \in 1..(Len(path) - 5) : \A k \in i..(i + 5) : IsDigit(path[k])

RewrittenUrlStep ==
    /\ nav_result.kind = "ExecutionPlan"
    /\ Len(nav_result.steps) = 1
    /\ nav_result.steps[1].action_type = "navigate"
    /\ nav_result.steps[1].value # <<>>
    /\ nav_result.steps[1].value =
          rewrite_flight_dates_in_url(
              BaseUrl, format_compact_date_for_url(OutboundDate),
              format_compact_date_for_url(
                  GetDate(nav_request.action_plan.entities, "date_end")))

AsksWith(reason) ==
    nav_result.kind = "ClarificationRequest" /\ nav_result.reason = reason

(* C22: the flight-date update builder returns exactly one of: a plan with  *)
(* a single navigate step carrying the rewritten URL, or a                  *)
(* ClarificationRequest with reason missing_page_url when no base URL is    *)
(* known, else missing_date when no outbound date can be formatted, else    *)
(* missing_date_in_url when the URL path holds no run of six digits.        *)
C22_DateUpdatePlanOrReason ==
    DateUpdateRequest
    => IF BaseUrl = <<>> THEN AsksWith("missing_page_url")
       ELSE IF OutboundDate = NoDate THEN AsksWith("missing_date")
       ELSE IF ~PathHoldsDateRun(BaseUrl) THEN AsksWith("missing_date_in_url")
       ELSE RewrittenUrlStep

C22_Witness ==
    /\ DateUpdateRequest
    /\ RewrittenUrlStep
    /\ nav_result.steps[1].step_id = "s_update_flight_dates"

HeuristicResult == Planned /\ nav_request.remote = NoRemote

\* an accessibility-tree request whose action needs an element to act on
AXElementRequest ==
    /\ Planned
    /\ nav_request.kind = "AXNavigationRequest"
    /\ nav_request.action_plan.action \notin
          {"scroll", "scroll_page", "scroll_down", "scroll_up", "history_back",
           "back", "go_back", "open_site", "navigate"}

\* the tree offers nothing to act on
NoCandidates == nav_request.ax_tree.elements = <<>>

----------------------------------------------------------------------------
(* Claims about the interpreter's LLM path *)

LLMPlanReturned ==
    /\ Returned
    /\ RemoteTag(is_configured, llm_reply) = "actionplan_v1"
    /\ result.kind = "ActionPlan"

LLMEntities == GetDict(llm_reply.json, "entities")

LocalEntities == extract_entities_from_transcript(msg.transcript)

\* the url of the site table for the site of the returned plan
SynthesizedUrl(k) ==
    /\ k = "url"
    /\ result.action = "search_content"
    /\ Has(result.entities, "site")
    /\ map_site_to_url(result.entities["site"]) # ""
    /\ result.entities[k] = map_site_to_url(result.entities["site"])

(* C24: on an LLM parse tagged actionplan_v1 every entity key of the LLM's  *)
(* plan keeps the LLM's value in the returned plan; a locally extracted     *)
(* entity is added only under a key the LLM plan does not have, and a url   *)
(* is synthesized from the site table only when the action is               *)
(* search_content, a site is known and no url key is present.               *)
C24_LLMEntitiesKept ==
    LLMPlanReturned
    => /\ \A k \in DOMAIN LLMEntities :
             Has(result.entities, k) /\ result.entities[k] = LLMEntities[k]
       /\ \A k \in DOMAIN result.entities \ DOMAIN LLMEntities :
             \/ Has(LocalEntities, k) /\ result.entities[k] = LocalEntities[k]
             \/ ~Has(LocalEntities, k) /\ SynthesizedUrl(k)

C24_Witness ==
    /\ LLMPlanReturned
    /\ Has(LLMEntities, "site") /\ Has(LocalEntities, "site")
    /\ LocalEntities["site"] # LLMEntities["site"]
    /\ result.entities["site"] = LLMEntities["site"]
    /\ ~Has(LLMEntities, "url") /\ SynthesizedUrl("url")

----------------------------------------------------------------------------
(* Claims about the matchers called on their own *)

GuessReturned == mt_call.fn = "pick_best_guess" /\ mt_found.returned

\* the role sets the intent expects: calendar cells for a date intent, text
\* inputs for an input or search intent, buttons and links for a click intent
ExpectedRoleSets(intent) ==
    (IF IsDateAction(intent.action) \/ intent.date # NoDate THEN {{"gridcell"}} ELSE {})
    \cup (IF IsInputAction(intent.action) THEN {InputRoles} ELSE {})
    \cup (IF IsClickAction(intent.action) THEN {{"button", "link"}} ELSE {})

\* the ladder, for one role set: an enabled focused element of the set, else
\* the first enabled element of the set, else the first enabled element
OnLadder(elements, roles, el) ==
    LET of_set == {i \in 1..Len(elements) :
                     elements[i].role \in roles /\ ~elements[i].disabled}
        focused == {i \in of_set : elements[i].focused}
        usable == {i \in 1..Len(elements) : ~elements[i].disabled}
    IN IF focused # {} THEN el \in {elements[i] : i \in focused}
       ELSE IF of_set # {} THEN el = elements[Min(of_set)]
       ELSE IF usable # {} THEN el = elements[Min(usable)]
       ELSE el = NoAXElement

\* an intent that expects no role set climbs the last rung only
RoleSetsOf(intent) ==
    IF ExpectedRoleSets(intent) = {} THEN {{}} ELSE ExpectedRoleSets(intent)

NoneOnlyWhenAllDisabled ==
    mt_found.el = NoAXElement =>
        \A i \in 1..Len(mt_call.ax_tree.elements) : mt_call.ax_tree.elements[i].disabled

(* C25: pick_best_guess returns, for the role set the intent expects, a     *)
(* focused element of that set if one is focused, else the first            *)
(* non-disabled element of the set in tree order, else the first            *)
(* non-disabled element of the whole tree, and none only when every         *)
(* element is disabled.                                                     *)
C25_GuessFollowsLadder ==
    GuessReturned =>
        /\ \E roles \in RoleSetsOf(mt_call.intent) :
              OnLadder(mt_call.ax_tree.elements, roles, mt_found.el)
        /\ NoneOnlyWhenAllDisabled

ButtonReturned == mt_call.fn = "find_action_button" /\ mt_found.returned

\* the name is one of the keywords, whole
ExactKeywordName(name, keywords) == \E k \in 1..Len(keywords) : name = keywords[k]

HasExactButton(elements, keywords) ==
    \E i \in 1..Len(elements) :
        /\ elements[i].role = "button"
        /\ ~elements[i].disabled
        /\ ExactKeywordName(elements[i].name, keywords)

(* C26: whenever the tree holds an enabled button whose name is exactly one *)
(* of the action keywords, find_action_button returns a button with an      *)
(* exact keyword name, never a link or an element whose name only starts    *)
(* with or contains a keyword.                                              *)
C26_ExactButtonWins ==
    (ButtonReturned
     /\ HasExactButton(mt_call.ax_tree.elements, mt_call.action_keywords)) =>
        /\ mt_found.el.role = "button"
        /\ ExactKeywordName(mt_found.el.name, mt_call.action_keywords)

----------------------------------------------------------------------------
(* Claims about the failure limiter *)

\* the last request was verified and its key accepted
KeyVerified == Verifies(response) /\ response.handler_ran

\* the failures of ip the limiter still counts at time t
Counted(ip, t) ==
    IF Has(FAILED_ATTEMPTS, ip)
    THEN SelectSeq(FAILED_ATTEMPTS[ip], LAMBDA a : a >= t - FAILED_WINDOW_SECONDS)
    ELSE <<>>

(* C27: a successful verification from an ip erases the ip's failure        *)
(* history and block entry, so only failures with no success between them   *)
(* count towards the limit: the failures counted are those since the last   *)
(* success, and a block is in force only when FAILED_LIMIT of those fell    *)
(* inside the window.                                                       *)
C27_SuccessErasesFailures ==
    /\ KeyVerified =>
          ~Has(FAILED_ATTEMPTS, response.ip) /\ ~Has(BLOCKED_IPS, response.ip)
    /\ \A ip \in ClientIps :
          /\ Counted(ip, wall_clock) = consecutive[ip].failures
          /\ Has(BLOCKED_IPS, ip) =>
                BLOCKED_IPS[ip] = consecutive[ip].blocked_until

\* nine failures, a success and nine more failures at one time of day: ten
\* failures fell inside the window and the ip is not blocked
C27_Witness ==
    /\ Verifies(response) /\ response.status = 401
    /\ wall_clock = 0
    /\ ~Has(BLOCKED_IPS, response.ip)
    /\ Len(FAILED_ATTEMPTS[response.ip]) = FAILED_LIMIT - 1
    /\ windowed[response.ip].blocked_until = BLOCK_DURATION_SECONDS

\* a step in which a request went through verify_api_key
VerificationStep ==
    /\ wall_clock' = wall_clock
    /\ response' # NoResponse
    /\ Verifies(response')

\* the block of ip is in force at time t, or has lapsed
InForce(ip, t) == Has(BLOCKED_IPS, ip) /\ BLOCKED_IPS[ip] >= t

Lapsed(ip, t) == Has(BLOCKED_IPS, ip) /\ BLOCKED_IPS[ip] < t

BlockedRequestChangesNothing ==
    InForce(response'.ip, wall_clock) =>
        /\ response'.status = 401 /\ ~response'.handler_ran
        /\ UNCHANGED <<FAILED_ATTEMPTS, BLOCKED_IPS>>

FirstRequestAfterBlock ==
    Lapsed(response'.ip, wall_clock) =>
        /\ ~Has(FAILED_ATTEMPTS, response'.ip)
        /\ ~Has(BLOCKED_IPS', response'.ip)
        /\ IF KeyAccepted(response')
           THEN response'.handler_ran /\ ~Has(FAILED_ATTEMPTS', response'.ip)
           ELSE /\ response'.status = 401
                /\ FAILED_ATTEMPTS'[response'.ip] = <<wall_clock>>

(* C28: a request from a blocked ip is rejected without registering a       *)
(* failure, so the expiry of a block in force is never moved; the first     *)
(* request after the expiry is evaluated normally, from an empty failure    *)
(* count, and is accepted when it carries the valid key.                    *)
C28_BlockNeverExtended ==
    [][VerificationStep => BlockedRequestChangesNothing /\ FirstRequestAfterBlock]_vars

\* the ip blocked at time 0 is served again with the valid key after 330 s
C28_Witness ==
    /\ KeyVerified
    /\ response.ip = "10.1.2.3"
    /\ consecutive[response.ip].blocked_until = BLOCK_DURATION_SECONDS
    /\ wall_clock > BLOCK_DURATION_SECONDS

----------------------------------------------------------------------------
(* Claims about a trace id requested twice *)

\* the trace id of the PipelineRequest accepted in this step
AcceptedTrace == CHOOSE t \in DOMAIN recorded' : recorded'[t].serial = accepted'

\* a request for a trace id whose session is in flight replaces that
\* session by its own sender and snapshot and adds no second one
OverwritesInFlightSession ==
    (accepted' = accepted + 1
     /\ Has(_prune_sessions(_pipeline_sessions, now), AcceptedTrace)) =>
        /\ DOMAIN _pipeline_sessions' = DOMAIN _prune_sessions(_pipeline_sessions, now)
        /\ _pipeline_sessions'[AcceptedTrace].sender = recorded'[AcceptedTrace].sender
        /\ _pipeline_sessions'[AcceptedTrace].ax_tree = recorded'[AcceptedTrace].ax_tree
        /\ _pipeline_sessions'[AcceptedTrace].serial = accepted'

\* a result that is delivered answers the latest request for its trace id
AnswersLatestRequest ==
    Len(outbox') > Len(outbox) =>
        /\ outbox'[Len(outbox')].serial = recorded[outbox'[Len(outbox')].trace_id].serial
        /\ outbox'[Len(outbox')].to = recorded[outbox'[Len(outbox')].trace_id].sender

\* a request whose session is in the map has had no result yet
InFlightUnanswered ==
    \A t \in DOMAIN _pipeline_sessions :
        \A i \in 1..Len(outbox) : outbox[i].serial # _pipeline_sessions[t].serial

(* C29: a PipelineRequest for a trace id that has a session in flight       *)
(* overwrites the session with its own sender and snapshot; there is one    *)
(* session per trace id, a result for the trace id goes to the most recent  *)
(* requester, and the request that was overwritten, unanswered until then,  *)
(* is never answered.                                                       *)
C29_LaterRequestTakesOverSession ==
    []InFlightUnanswered /\ [][OverwritesInFlightSession /\ AnswersLatestRequest]_vars

\* two requests for t1 with no expiry and no failure: the only result sent
\* is the second request's, and both terminal messages have been handled
C29_Witness ==
    /\ ~is_configured /\ now = 0 /\ raised = 0
    /\ accepted = 2 /\ DOMAIN recorded = {"t1"}
    /\ inbox = EmptyBag
    /\ Len(outbox) = 1
    /\ outbox[1].serial = 2
    /\ outbox[1].to = recorded["t1"].sender

----------------------------------------------------------------------------
(* Claims about ASIClient.navigate *)

\* the first parsed result asks for the whole DOM: a no_candidates
\* clarification, or a plan whose mean step confidence is below 0.5
AsksForFullDom(parsed) ==
    \/ /\ parsed.schema_version = "clarification_v1"
       /\ Lower(parsed.reason) = "no_candidates"
    \/ /\ parsed.schema_version = "executionplan_v1"
       /\ MeanBelowHalf(parsed.steps)

AtMostTwoCalls == Len(asi_chats) <= 2

SecondCallOnlyAsFallback ==
    Len(asi_chats) = 2 =>
        /\ asi.dommap_filter_enabled
        /\ asi_chats[1].filtered
        /\ asi.dommap_fallback_enabled
        /\ AsksForFullDom(asi_parsed[1])
        /\ ~asi_chats[2].filtered

SecondResultReturned ==
    (asi_pc = "done" /\ Len(asi_chats) = 2) => asi_returned = asi_parsed[2]

\* after the second call nothing is left to run but the returns
NoThirdCall == Len(asi_chats) = 2 => asi_pc = "done"

(* C30: navigate makes at most two LLM calls and terminates; the second     *)
(* call, on the unfiltered DOM, is made only when the filter was used, the  *)
(* fallback is enabled and the first parsed result is a no_candidates       *)
(* clarification or a plan whose mean step confidence is below 0.5; the     *)
(* result of the second call is returned without a further retry.           *)
C30_AtMostOneRetry ==
    /\ [](AtMostTwoCalls /\ SecondCallOnlyAsFallback /\ SecondResultReturned
          /\ NoThirdCall)
    /\ <>(asi_pc = "done")

\* the retry came back with a plan of low confidence too, and was returned
C30_Witness ==
    /\ asi_pc = "done"
    /\ Len(asi_chats) = 2
    /\ asi_parsed[1] = [schema_version |-> "executionplan_v1", steps |-> <<20, 40>>]
    /\ asi_returned = [schema_version |-> "executionplan_v1", steps |-> <<49>>]

====
